---- MODULE Spec2Model ----
(***************************************************************************)
(* Model of the R033 / R065 reconciliation pipeline (src/src/logic.py):    *)
(* class ExcelProcessor, its loaders, filter, merge, artifact builders and *)
(* the two worker threads coordinated by the processing_complete event.    *)
(*                                                                         *)
(* Text is modelled as a sequence of characters so that str.strip(),       *)
(* str.upper(), the "in" test and equality are computed, not postulated.   *)
(* A cell of a sheet is a record [t, s, n]: a Python str (t = "str", text  *)
(* s), a Python int (t = "int", value n) or a missing value NaN            *)
(* (t = "nan").                                                            *)
(***************************************************************************)
EXTENDS Integers, Sequences, FiniteSets, TLC

----------------------------------------------------------------------------
(* Python str primitives                                                   *)

LowerChars ==
    <<"a", "b", "c", "d", "e", "f", "g", "h", "i", "j", "k", "l", "m", "n", "o",
      "p", "q", "r", "s", "t", "u", "v", "w", "x", "y", "z", "á", "é", "í", "ó", "ú", "ñ">>

UpperChars ==
    <<"A", "B", "C", "D", "E", "F", "G", "H", "I", "J", "K", "L", "M", "N", "O",
      "P", "Q", "R", "S", "T", "U", "V", "W", "X", "Y", "Z", "Á", "É", "Í", "Ó", "Ú", "Ñ">>

(* str.upper() on one character *)
UpperChar(c) ==
    IF \E i \in 1..Len(LowerChars) : LowerChars[i] = c
    THEN UpperChars[CHOOSE i \in 1..Len(LowerChars) : LowerChars[i] = c]
    ELSE c

(* the element of a one-element set; { e(x) : x \in {v} } names the value  *)
(* v as x in e, computed once                                              *)
Only(S) == CHOOSE x \in S : TRUE

(* str.upper() *)
Upper(s) == Only({ [i \in 1..Len(v) |-> UpperChar(v[i])] : v \in {s} })

(* the characters str.strip() removes *)
IsSpace(c) == c \in {" ", "\t", "\n"}

(* str.strip(): drops leading and trailing whitespace *)
Strip(s) ==
    Only({ IF \A i \in 1..Len(v) : IsSpace(v[i]) THEN <<>>
           ELSE SubSeq(v,
                       CHOOSE i \in 1..Len(v) :
                           ~IsSpace(v[i]) /\ \A j \in 1..(i - 1) : IsSpace(v[j]),
                       CHOOSE i \in 1..Len(v) :
                           ~IsSpace(v[i]) /\ \A j \in (i + 1)..Len(v) : IsSpace(v[j]))
           : v \in {s} })

(* the Python test  sub in s  on two str values *)
Contains(sub, s) ==
    \E a \in {sub}, b \in {s} :
        \E i \in 0..(Len(b) - Len(a)) : SubSeq(b, i + 1, i + Len(a)) = a

(* decimal digits of a natural number, as str(int) prints them *)
DigitChars == <<"0", "1", "2", "3", "4", "5", "6", "7", "8", "9">>

RECURSIVE IntToStr(_)
IntToStr(n) ==
    IF n < 10 THEN <<DigitChars[n + 1]>>
    ELSE Append(IntToStr(n \div 10), DigitChars[(n % 10) + 1])

----------------------------------------------------------------------------
(* Cells                                                                   *)

StrCell(s) == [t |-> "str", s |-> s, n |-> 0]
IntCell(n) == [t |-> "int", s |-> <<>>, n |-> n]
NaN == [t |-> "nan", s |-> <<>>, n |-> 0]

(* str(x) of a cell value, as astype(str) and str(col) compute it *)
PyStr(c) ==
    IF c.t = "str" THEN c.s
    ELSE IF c.t = "int" THEN IntToStr(c.n)
    ELSE <<"n", "a", "n">>

(* Series.notna() on one cell *)
NotNa(c) == c.t # "nan"

----------------------------------------------------------------------------
(* Module constants of logic.py                                            *)

HEADERS_R033 ==
    << <<"O", "r", "d", "e", "n", " ", "d", "e", " ", "C", "o", "m", "p", "r", "a">>,
       <<"C", "ó", "d", "i", "g", "o", " ", "P", "r", "o", "v", "e", "e", "d", "o", "r">>,
       <<"S", "u", "c", "u", "r", "s", "a", "l", " ", "P", "r", "o", "v", "e", "e", "d", "o", "r">>,
       <<"P", "r", "o", "v", "e", "e", "d", "o", "r">>,
       <<"C", "ó", "d", ".", " ", "T", "i", "e", "n", "d", "a">>,
       <<"T", "i", "e", "n", "d", "a">>,
       <<"E", "s", "t", "a", "t", "u", "s">>,
       <<"D", "í", "a", "s", " ", "C", "o", "n", "d", "i", "c", "i", "ó", "n", " ", "(", "R", "M", "S", ")">>,
       <<"U", "n", "i", "d", "a", "d", "e", "s", " ", "R", "e", "c", "i", "b", "i", "d", "a", "s">>,
       <<"D", "o", "c", "u", "m", "e", "n", "t", "o">>,
       <<"R", "e", "c", "e", "p", "c", "i", "ó", "n">>,
       <<"D", "i", "f", "e", "r", "e", "n", "c", "i", "a", " ", "A", "P">>,
       <<"S", "a", "l", "d", "o", " ", "H", "e", "r", "r", "a", "m", "i", "e", "n", "t", "a">>,
       <<"F", "e", "c", "h", "a", " ", "R", "e", "c", "e", "p", "c", "i", "ó", "n">>,
       <<"T", "e", "r", "m", "i", "n", "o", " ", "d", "e", " ", "P", "l", "a", "z", "o">> >>

HEADERS_R065 ==
    << <<"O", "R", "D", "E", "N", " ", "C", "O", "M", "P", "R", "A">>,
       <<"N", "R", "O", " ", "F", "A", "C", "T", "U", "R", "A">>,
       <<"I", "D", " ", "P", "R", "O", "V", "E", "E", "D", "O", "R">>,
       <<"N", "O", "M", "B", "R", "E", " ", "P", "R", "O", "V", "E", "E", "D", "O", "R">>,
       <<"M", "E", "N", "S", "A", "J", "E">>,
       <<"I", "T", "E", "M", " ", "1">>,
       <<"I", "T", "E", "M", " ", "2">>,
       <<"V", "P", "N">>,
       <<"I", "T", "E", "M", " ", "D", "E", "S", "C", "R", "I", "P", "C", "I", "O", "N">>,
       <<"F", "E", "C", "H", "A", " ", "C", "R", "E", "A", "C", "I", "O", "N">>,
       <<"N", "O", "M", "B", "R", "E", " ", "A", "R", "C", "H", "I", "V", "O">>,
       <<"E", "S", "T", "A", "D", "O", " ", "F", "A", "C", "T", "U", "R", "A">>,
       <<"I", "D", " ", "P", "R", "O", "V", "E", "E", "D", "O", "R", " ", "P", "A", "D", "R", "E">>,
       <<"N", "O", "M", "B", "R", "E", " ", "P", "R", "O", "V", "E", "E", "D", "O", "R", " ", "P", "A", "D", "R", "E">>,
       <<"F", "E", "C", "H", "A", " ", "F", "A", "C", "T", "U", "R", "A">>,
       <<"S", "U", "B", "T", "T", "O", "T", "A", "L">>,
       <<"I", "M", "P", "U", "E", "S", "T", "O">>,
       <<"T", "O", "T", "A", "L">> >>

MENSAJE_FILTRO_R065 ==
    <<"N", "o", " ", "s", "e", " ", "e", "n", "c", "u", "e", "n", "t", "r", "a", " ", "e", "n", " ", "R", "M", "S", " ", "e", "l", " ", "í", "t", "e", "m", " ", "p", "a", "r", "a", " ", "e", "s", "t", "a", " ", "f", "a", "c", "t", "u", "r", "a">>

----------------------------------------------------------------------------
(* DataFrames: column labels (cells of the header row) and rows of cells    *)

DataFrame(cols, rows) == [none |-> FALSE, cols |-> cols, rows |-> rows]

(* the value None of a field that holds no DataFrame yet *)
NoDataFrame == [none |-> TRUE, cols |-> <<>>, rows |-> <<>>]

(* the positions of the columns that carry the label of column i: df[col]  *)
(* is a Series only when there is exactly one                              *)
SameLabel(df, i) == {j \in 1..Len(df.cols) : df.cols[j] = df.cols[i]}

(* the least element of a set of positions, 0 when the set is empty *)
First(S) ==
    Only({ IF T = {} THEN 0 ELSE CHOOSE i \in T : \A j \in T : i <= j : T \in {S} })

(* the elements of s at the positions idx, in order *)
AtPositions(s, idx) ==
    [k \in 1..Cardinality(idx) |->
        s[CHOOSE i \in idx : Cardinality({j \in idx : j <= i}) = k]]

(* order-preserving selection, as boolean-mask indexing df[mask] *)
SelectSeq2(s, keep) ==
    Only({ AtPositions(v, {i \in 1..Len(v) : k[i]}) : v \in {s}, k \in {keep} })

(* concatenation of the first n sequences of a sequence of sequences *)
RECURSIVE FlattenUpTo(_, _)
FlattenUpTo(ss, n) == IF n = 0 THEN <<>> ELSE FlattenUpTo(ss, n - 1) \o ss[n]

(* concatenation of a sequence of sequences *)
Flatten(ss) == Only({ FlattenUpTo(v, Len(v)) : v \in {ss} })

----------------------------------------------------------------------------
(* PASO 1-2: header search and load                                        *)

(* number of expected headers found verbatim among the row's trimmed cells *)
HeaderMatches(row, expected_headers) ==
    Only({ Cardinality({k \in 1..Len(expected_headers) :
                            expected_headers[k] \in row_values})
           : row_values \in {{Strip(PyStr(row[j])) : j \in 1..Len(row)}} })

(* faulty variant: the qualifying row with the most matches is returned, not the first *)
FindHeaderInDataframe_BestMatch(sheet, expected_headers) ==
    LET max_rows == IF Len(sheet) < 20 THEN Len(sheet) ELSE 20
        found == {i \in 0..(max_rows - 1) :
                     10 * HeaderMatches(sheet[i + 1], expected_headers)
                         >= 7 * Len(expected_headers)}
    IN  First({i \in found :
                  \A j \in found : HeaderMatches(sheet[j + 1], expected_headers)
                                      <= HeaderMatches(sheet[i + 1], expected_headers)})

(* _find_header_in_dataframe: 0-based index of the first of the first 20   *)
(* rows with match_ratio >= 0.7, else 0                                    *)
FindHeaderInDataframe(sheet, expected_headers) ==
    LET max_rows == IF Len(sheet) < 20 THEN Len(sheet) ELSE 20
    IN  First({i \in 0..(max_rows - 1) :
                  10 * HeaderMatches(sheet[i + 1], expected_headers)
                      >= 7 * Len(expected_headers)})

(* whether load_r033 / load_r065 raise: pd.read_excel fails on an unreadable *)
(* file, df_raw.iloc[0] fails on a sheet without rows                      *)
LoadFails(file) == ~file.readable \/ Len(file.sheet) = 0

(* faulty variant: the first row of the sheet is taken as the header row whatever the search returns *)
LoadDataFrame_FirstRow(file, expected_headers) ==
    DataFrame(file.sheet[1], SubSeq(file.sheet, 2, Len(file.sheet)))

(* the DataFrame load_r033 / load_r065 store: the header row becomes the   *)
(* column labels, the rows after it the data                               *)
LoadDataFrame(file, expected_headers) ==
    Only({ DataFrame(file.sheet[header_row + 1],
                     SubSeq(file.sheet, header_row + 2, Len(file.sheet)))
           : header_row \in {FindHeaderInDataframe(file.sheet, expected_headers)} })

----------------------------------------------------------------------------
(* PASO 3: filter_r065                                                     *)

MENSAJE == <<"M", "E", "N", "S", "A", "J", "E">>

(* position of the first column whose str(col).upper() contains MENSAJE,   *)
(* 0 when there is none (mensaje_col is None)                              *)
MensajeCol(df) ==
    First({i \in 1..Len(df.cols) : Contains(MENSAJE, Upper(PyStr(df.cols[i])))})

(* filter_r065: [ok, df] where df is the value stored in df_r065_filtrado. *)
(* len(None) raises, and a label shared by several columns makes           *)
(* df[mensaje_col] a DataFrame on which .str raises; the except clause     *)
(* turns both into a failure                                               *)
FilterWithColumn(df_r065, mensaje_col) ==
    IF mensaje_col = 0 THEN [ok |-> TRUE, df |-> df_r065]
    ELSE IF Cardinality(SameLabel(df_r065, mensaje_col)) > 1
    THEN [ok |-> FALSE, df |-> NoDataFrame]
    ELSE [ok |-> TRUE,
          df |-> DataFrame(df_r065.cols,
                    SelectSeq2(df_r065.rows,
                        [r \in 1..Len(df_r065.rows) |->
                            Strip(PyStr(df_r065.rows[r][mensaje_col]))
                                = MENSAJE_FILTRO_R065]))]

FilterR065(df_r065) ==
    IF df_r065.none THEN [ok |-> FALSE, df |-> NoDataFrame]
    ELSE Only({ FilterWithColumn(df_r065, mensaje_col)
                : mensaje_col \in {MensajeCol(df_r065)} })

----------------------------------------------------------------------------
(* PASO 4: _find_column and process_and_merge                              *)

(* faulty variant: the aliases are tried one after the other, each against every column *)
FindColumn_AliasOrder(df, possible_names, exact_match) ==
    First(UNION {
        IF \E j \in 1..(k - 1) : \E i \in 1..Len(df.cols) :
                IF exact_match
                THEN Upper(Strip(PyStr(df.cols[i]))) = Strip(Upper(possible_names[j]))
                ELSE Contains(Strip(Upper(possible_names[j])), Upper(Strip(PyStr(df.cols[i]))))
        THEN {}
        ELSE {First({i \in 1..Len(df.cols) :
                        IF exact_match
                        THEN Upper(Strip(PyStr(df.cols[i]))) = Strip(Upper(possible_names[k]))
                        ELSE Contains(Strip(Upper(possible_names[k])),
                                      Upper(Strip(PyStr(df.cols[i]))))})} \ {0}
        : k \in 1..Len(possible_names) })

(* _find_column: position of the first column, in column order, matching   *)
(* one of possible_names (exactly or by containment); 0 stands for None    *)
FindColumn(df, possible_names, exact_match) ==
    First({i \in 1..Len(df.cols) :
              \E col_upper \in {Upper(Strip(PyStr(df.cols[i])))} :
                  \E k \in 1..Len(possible_names) :
                      \E name_upper \in {Strip(Upper(possible_names[k]))} :
                          IF exact_match THEN col_upper = name_upper
                          ELSE Contains(name_upper, col_upper)})

OC_NAMES_R065 == << <<"O", "R", "D", "E", "N", " ", "C", "O", "M", "P", "R", "A">>, <<"O", "R", "D", "E", "N", "_", "C", "O", "M", "P", "R", "A">>, <<"O", "C">> >>
OC_NAMES_R033 == << <<"O", "r", "d", "e", "n", " ", "d", "e", " ", "C", "o", "m", "p", "r", "a">>, <<"O", "R", "D", "E", "N", " ", "D", "E", " ", "C", "O", "M", "P", "R", "A">>, <<"O", "C">> >>
TIENDA == <<"T", "i", "e", "n", "d", "a">>
ESTATUS == <<"E", "s", "t", "a", "t", "u", "s">>
OC_MERGE == StrCell(<<"O", "C", "_", "M", "E", "R", "G", "E">>)
CENTRO_DE_COSTO == StrCell(<<"C", "e", "n", "t", "r", "o", " ", "d", "e", " ", "C", "o", "s", "t", "o">>)
ESTATUS_R033 == StrCell(<<"E", "s", "t", "a", "t", "u", "s", " ", "R", "0", "3", "3">>)
GRUPO_DE_PAGO == StrCell(<<"G", "r", "u", "p", "o", " ", "d", "e", " ", "P", "a", "g", "o">>)
CENDIS == <<"C", "E", "N", "D", "I", "S">>
DIRECTO == <<"D", "i", "r", "e", "c", "t", "o">>

(* DataFrame.drop_duplicates(subset = key, keep = 'first') on a sequence of *)
(* records with a field raw: a record is kept when no earlier one has its  *)
(* raw value                                                               *)
DropDuplicates(recs) ==
    Only({ SelectSeq2(v, [i \in 1..Len(v) |->
                            \A j \in 1..(i - 1) : v[j].raw # v[i].raw])
           : v \in {recs} })

(* faulty variant: a placeholder text stands for the cost center when the Tienda column is missing *)
LookupTable_Placeholder(df_r033, oc_col, cc_col, estatus_col) ==
    Only({ [i \in 1..Len(kept) |->
              [key |-> Strip(PyStr(kept[i].raw)), cc |-> kept[i].cc, est |-> kept[i].est]]
           : kept \in {DropDuplicates(
                [i \in 1..Len(df_r033.rows) |->
                    [raw |-> df_r033.rows[i][oc_col],
                     cc  |-> IF cc_col = 0 THEN StrCell(<<"S", "/", "C">>)
                             ELSE df_r033.rows[i][cc_col],
                     est |-> IF estatus_col = 0 THEN StrCell(<<>>)
                             ELSE df_r033.rows[i][estatus_col]]])} })

(* df_r033_lookup after lines 359-376: one record per R033 row with the    *)
(* order key as read (raw), 'Centro de Costo' and 'Estatus R033' (the      *)
(* empty str when the column is missing), duplicates of the raw key        *)
(* dropped, and only then the key normalised (astype(str).str.strip())     *)
LookupTable(df_r033, oc_col, cc_col, estatus_col) ==
    Only({ [i \in 1..Len(kept) |->
              [key |-> Strip(PyStr(kept[i].raw)), cc |-> kept[i].cc, est |-> kept[i].est]]
           : kept \in {DropDuplicates(
                [i \in 1..Len(df_r033.rows) |->
                    [raw |-> df_r033.rows[i][oc_col],
                     cc  |-> IF cc_col = 0 THEN StrCell(<<>>)
                             ELSE df_r033.rows[i][cc_col],
                     est |-> IF estatus_col = 0 THEN StrCell(<<>>)
                             ELSE df_r033.rows[i][estatus_col]]])} })

(* the output rows of one left row: one per lookup record with its key, or *)
(* one with NaN in the looked-up columns                                   *)
MergeRow(left_row, key, hits) ==
    IF hits = <<>>
    THEN << left_row \o <<StrCell(key), NaN, NaN>> >>
    ELSE [h \in 1..Len(hits) |->
            left_row \o <<StrCell(key), hits[h].cc, hits[h].est>>]

(* DataFrame.merge(how = 'left', on = 'OC_MERGE'): per left row, in left   *)
(* order, one output row per lookup record with the same key (in lookup    *)
(* order), or one row with NaN in the looked-up columns when none matches  *)
LeftMerge(left_rows, keys, lookup) ==
    Flatten([r \in 1..Len(left_rows) |->
        Only({ MergeRow(left_rows[r], keys[r], hits)
               : hits \in {SelectSeq2(lookup,
                              [k \in 1..Len(lookup) |-> lookup[k].key = keys[r]])} })])

(* faulty variant: the cost center is compared without upper-casing it *)
GrupoDePago_CaseSensitive(x) ==
    IF Contains(CENDIS, PyStr(x)) THEN StrCell(CENDIS) ELSE StrCell(DIRECTO)

(* 'CENDIS' if 'CENDIS' in str(x).upper() else 'Directo' *)
GrupoDePago(x) ==
    IF Contains(CENDIS, Upper(PyStr(x))) THEN StrCell(CENDIS) ELSE StrCell(DIRECTO)

(* faulty variant: the row filter only drops the missing values *)
HasCentroDeCosto_NotNaOnly(cc) == NotNa(cc)

(* the row filter of PASO 4.6 on the 'Centro de Costo' cell *)
HasCentroDeCosto(cc) == NotNa(cc) /\ Strip(PyStr(cc)) # <<>>

(* the values assigned to self.df_resultado by lines 383, 390, 407 and 425, *)
(* from the columns of the filtered R065 and the rows of the left merge     *)
MergeWrites4(cols2, cleaned, n) ==
    DataFrame(Append(cols2, GRUPO_DE_PAGO),
              [r \in 1..Len(cleaned) |-> Append(cleaned[r], GrupoDePago(cleaned[r][n + 1]))])

MergeWrites3(cols, cols2, merged, dropped, cleaned, n) ==
    << DataFrame(cols \o <<OC_MERGE, CENTRO_DE_COSTO, ESTATUS_R033>>, merged),
       DataFrame(cols2, dropped),
       DataFrame(cols2, cleaned),
       MergeWrites4(cols2, cleaned, n) >>

MergeWrites2(cols, merged, dropped, n) ==
    Only({ MergeWrites3(cols, cols \o <<CENTRO_DE_COSTO, ESTATUS_R033>>, merged, dropped,
                        cleaned, n)
           : cleaned \in {SelectSeq2(dropped,
                             [r \in 1..Len(dropped) |->
                                HasCentroDeCosto(dropped[r][n + 1])])} })

MergeWrites(cols, merged, n) ==
    Only({ MergeWrites2(cols, merged, dropped, n)
           : dropped \in {[r \in 1..Len(merged) |->
                            SubSeq(merged[r], 1, n) \o SubSeq(merged[r], n + 2, n + 3)]} })

(* the normalised key of every row of the filtered R065 (line 375) *)
MergeKeys(df, oc_col) ==
    [r \in 1..Len(df.rows) |-> Strip(PyStr(df.rows[r][oc_col]))]

(* faulty variant: a missing order-key column is reported with the message of the except clause *)
MergeWithColumns_OneMessage(df_r033_work, df_r065_work, oc_col_r065, oc_col_r033, cc_col_r033, estatus_col_r033) ==
    IF oc_col_r065 = 0
    THEN [ok |-> FALSE, msg |-> "Error en procesamiento",
          writes |-> <<>>]
    ELSE IF oc_col_r033 = 0
    THEN [ok |-> FALSE, msg |-> "Error en procesamiento",
          writes |-> <<>>]
    ELSE IF \/ Cardinality(SameLabel(df_r065_work, oc_col_r065)) > 1
            \/ \E c \in {oc_col_r033, cc_col_r033, estatus_col_r033} \ {0} :
                    Cardinality(SameLabel(df_r033_work, c)) > 1
    THEN [ok |-> FALSE, msg |-> "Error en procesamiento", writes |-> <<>>]
    ELSE [ok |-> TRUE, msg |-> "",
          writes |->
            Only({ MergeWrites(df_r065_work.cols, merged, Len(df_r065_work.cols))
                   : merged \in
                       { Only({ LeftMerge(df_r065_work.rows, keys, lookup)
                                : keys \in {MergeKeys(df_r065_work, oc_col_r065)},
                                  lookup \in {LookupTable(df_r033_work, oc_col_r033,
                                                          cc_col_r033,
                                                          estatus_col_r033)} }) } })]

(* process_and_merge once the four columns are looked up (0 is None).  A   *)
(* label carried by several columns makes df[label] a DataFrame, so .str   *)
(* raises and the except clause reports a failure (for the Tienda and      *)
(* Estatus labels the model's inputs carry each at most once).             *)
MergeWithColumns(df_r033_work, df_r065_work, oc_col_r065, oc_col_r033, cc_col_r033, estatus_col_r033) ==
    IF oc_col_r065 = 0
    THEN [ok |-> FALSE, msg |-> "No se encontró columna Orden de Compra en R065",
          writes |-> <<>>]
    ELSE IF oc_col_r033 = 0
    THEN [ok |-> FALSE, msg |-> "No se encontró columna Orden de Compra en R033",
          writes |-> <<>>]
    ELSE IF \/ Cardinality(SameLabel(df_r065_work, oc_col_r065)) > 1
            \/ \E c \in {oc_col_r033, cc_col_r033, estatus_col_r033} \ {0} :
                    Cardinality(SameLabel(df_r033_work, c)) > 1
    THEN [ok |-> FALSE, msg |-> "Error en procesamiento", writes |-> <<>>]
    ELSE [ok |-> TRUE, msg |-> "",
          writes |->
            Only({ MergeWrites(df_r065_work.cols, merged, Len(df_r065_work.cols))
                   : merged \in
                       { Only({ LeftMerge(df_r065_work.rows, keys, lookup)
                                : keys \in {MergeKeys(df_r065_work, oc_col_r065)},
                                  lookup \in {LookupTable(df_r033_work, oc_col_r033,
                                                          cc_col_r033,
                                                          estatus_col_r033)} }) } })]

(* process_and_merge: [ok, msg, writes]; writes are the successive values   *)
(* assigned to self.df_resultado, msg the error_message set on failure     *)
(* (None.copy() raises into the except clause)                             *)
ProcessAndMerge(df_r033_work, df_r065_work) ==
    IF df_r033_work.none \/ df_r065_work.none
    THEN [ok |-> FALSE, msg |-> "Error en procesamiento", writes |-> <<>>]
    ELSE
    Only({ MergeWithColumns(df_r033_work, df_r065_work, oc_col_r065, oc_col_r033,
                            cc_col_r033, estatus_col_r033)
           : oc_col_r065 \in {FindColumn(df_r065_work, OC_NAMES_R065, FALSE)},
             oc_col_r033 \in {FindColumn(df_r033_work, OC_NAMES_R033, FALSE)},
             cc_col_r033 \in {FindColumn(df_r033_work, <<TIENDA>>, TRUE)},
             estatus_col_r033 \in {FindColumn(df_r033_work, <<ESTATUS>>, TRUE)} })

----------------------------------------------------------------------------
(* Inputs of a run: the two uploaded files and the output path              *)

(* a file pd.read_excel can read, with the sheet it yields (header = None) *)
ExcelFile(sheet) == [readable |-> TRUE, sheet |-> sheet]

(* a file pd.read_excel raises on *)
CorruptFile == [readable |-> FALSE, sheet |-> <<>>]

SENTINEL == StrCell(MENSAJE_FILTRO_R065)

R033_Good ==
    ExcelFile(<< << StrCell(<<"O", "r", "d", "e", "n", " ", "d", "e", " ", "C", "o", "m", "p", "r", "a">>), StrCell(<<"T", "i", "e", "n", "d", "a">>), StrCell(<<"E", "s", "t", "a", "t", "u", "s">>) >>,
                 << IntCell(1), StrCell(<<"C", "E", "N", "D", "I", "S", " ", "N", "o", "r", "t", "e">>), StrCell(<<"A">>) >>,
                 << IntCell(2), StrCell(<<"T", "1">>), StrCell(<<"B">>) >> >>)

R065_Good ==
    ExcelFile(<< << StrCell(<<"O", "R", "D", "E", "N", " ", "C", "O", "M", "P", "R", "A">>), StrCell(<<"N", "R", "O", " ", "F", "A", "C", "T", "U", "R", "A">>), StrCell(<<"M", "E", "N", "S", "A", "J", "E">>), StrCell(<<"N", "O", "M", "B", "R", "E", " ", "P", "R", "O", "V", "E", "E", "D", "O", "R", " ", "P", "A", "D", "R", "E">>), StrCell(<<"T", "O", "T", "A", "L">>) >>,
                 << IntCell(1), StrCell(<<"F", "1">>), SENTINEL, StrCell(<<"P", "1">>), IntCell(100) >>,
                 << IntCell(3), StrCell(<<"F", "2">>), SENTINEL, StrCell(<<"P", "1">>), IntCell(50) >>,
                 << IntCell(2), StrCell(<<"F", "3">>), StrCell(<<"o", "t", "r", "o">>), StrCell(<<"P", "2">>), IntCell(70) >> >>)

(* two columns labelled MENSAJE: filter_r065 raises *)
R065_TwoMensaje ==
    ExcelFile(<< << StrCell(<<"O", "R", "D", "E", "N", " ", "C", "O", "M", "P", "R", "A">>), StrCell(<<"M", "E", "N", "S", "A", "J", "E">>), StrCell(<<"M", "E", "N", "S", "A", "J", "E">>) >>,
                 << IntCell(1), SENTINEL, SENTINEL >> >>)

(* no order-key column: process_and_merge fails *)
R065_NoOrden ==
    ExcelFile(<< << StrCell(<<"M", "E", "N", "S", "A", "J", "E">>), StrCell(<<"T", "O", "T", "A", "L">>) >>,
                 << SENTINEL, IntCell(5) >> >>)

(* no order-key column: process_and_merge fails *)
R033_NoOrden ==
    ExcelFile(<< << StrCell(<<"T", "i", "e", "n", "d", "a">>), StrCell(<<"E", "s", "t", "a", "t", "u", "s">>) >>,
                 << StrCell(<<"T", "1">>), StrCell(<<"A">>) >> >>)

R033Files == {CorruptFile, R033_Good, R033_NoOrden}
R065Files == {CorruptFile, R065_Good, R065_TwoMensaje, R065_NoOrden}

(* a path: os.path.dirname(path) is dir; ts is the timestamp in a generated *)
(* name.  NoPath is None.                                                   *)
Path(dir, base, ts) == [dir |-> dir, base |-> base, ts |-> ts]
NoPath == Path("", "", 0)
OutputPaths == {NoPath, Path("results", "out.xlsx", 0), Path("", "out.xlsx", 0)}

(* os.makedirs(os.path.dirname(output_path), exist_ok=True) raises          *)
(* FileNotFoundError on the empty directory name                           *)
MakedirsFails(path) == path.dir = ""

(* what upload_to_bigquery can meet: an exception inside its try block     *)
(* (caught at line 769), connect() False, insert_dataframe() False, or     *)
(* both True                                                               *)
UploadOutcomes == {"ok", "raised", "no_connection", "insert_failed"}

(* the number of calls of main on one ExcelProcessor *)
MaxRuns == 2

----------------------------------------------------------------------------
(* State                                                                   *)

VARIABLES
    df_r033, df_r065, df_r065_filtrado, df_resultado, \* ExcelProcessor fields
    excel_path, processing_complete, excel_ready,
    error_occurred, error_message,
    args, output_path, load_errors, result, main_pc,  \* main: arguments, locals, return value
    pc,                \* position of each thread of the run
    merge_writes,      \* process_and_merge: assignments to df_resultado still to make
    workbooks,         \* the files written by pd.ExcelWriter
    clock,             \* readings of datetime.now() so far
    runs,              \* calls of main so far
    set_calls,         \* calls of processing_complete.set() in this run
    steps,             \* outcome of each step of this run
    bq_sent            \* row-sets handed to insert_dataframe in this run

vars == <<df_r033, df_r065, df_r065_filtrado, df_resultado, excel_path,
          processing_complete, excel_ready, error_occurred, error_message,
          args, output_path, load_errors, result, main_pc, pc, merge_writes,
          workbooks, clock, runs, set_calls, steps, bq_sent>>

fields == <<df_r033, df_r065, df_r065_filtrado, df_resultado, excel_path,
            processing_complete, excel_ready, error_occurred, error_message>>

Threads == {"load_r033", "load_r065", "excel", "bq"}

(* error_message = None *)
NoMessage == "None"

NoSteps == [load_r033 |-> "none", load_r065 |-> "none", filter |-> "none",
            merge |-> "none", render |-> "none", upload |-> "none"]

NoResult == [kind |-> "none"]

(* main left by the exception of os.makedirs: nothing is returned *)
Raised == [kind |-> "raised"]

(* ExcelProcessor.__init__, before the first call of main *)
Init ==
    /\ df_r033 = NoDataFrame
    /\ df_r065 = NoDataFrame
    /\ df_r065_filtrado = NoDataFrame
    /\ df_resultado = NoDataFrame
    /\ excel_path = NoPath
    /\ processing_complete = FALSE
    /\ excel_ready = FALSE
    /\ error_occurred = FALSE
    /\ error_message = NoMessage
    /\ args = [r033_file |-> CorruptFile, r065_file |-> CorruptFile, output_path |-> NoPath]
    /\ output_path = NoPath
    /\ load_errors = <<>>
    /\ result = NoResult
    /\ main_pc = "idle"
    /\ pc = [t \in Threads |-> "idle"]
    /\ merge_writes = <<>>
    /\ workbooks = {}
    /\ clock = 0
    /\ runs = 0
    /\ set_calls = 0
    /\ steps = NoSteps
    /\ bq_sent = <<>>

----------------------------------------------------------------------------
(* main                                                                    *)

(* faulty variant: the error response keeps referring to the stored excel_path *)
BuildErrorResponse_KeepsPath ==
    [kind |-> "error", success |-> FALSE, error |-> error_message, excel_path |-> excel_path]

(* _build_error_response *)
BuildErrorResponse ==
    [kind |-> "error", success |-> FALSE, error |-> error_message, excel_path |-> NoPath]

(* len(df) if df is not None else 0 *)
RowCount(df) == IF df.none THEN 0 ELSE Len(df.rows)

(* faulty variant: rows_r065_filtrado is counted after the rows without cost center are dropped *)
BuildSuccessResponse_CountsAfterDrop ==
    [kind |-> "success", success |-> TRUE, error |-> NoMessage, excel_path |-> excel_path,
     rows_processed |-> RowCount(df_resultado),
     rows_r033 |-> RowCount(df_r033),
     rows_r065_original |-> RowCount(df_r065),
     rows_r065_filtrado |-> RowCount(df_resultado)]

(* _build_success_response *)
BuildSuccessResponse ==
    [kind |-> "success", success |-> TRUE, error |-> NoMessage, excel_path |-> excel_path,
     rows_processed |-> RowCount(df_resultado),
     rows_r033 |-> RowCount(df_r033),
     rows_r065_original |-> RowCount(df_r065),
     rows_r065_filtrado |-> RowCount(df_r065_filtrado)]

(* main, lines 862-910: PASO 0 and the start of the two loader threads.    *)
(* The events and the error fields are reset, the DataFrames and           *)
(* excel_path are not.                                                     *)
MainStart ==
    /\ main_pc = "idle"
    /\ runs < MaxRuns
    /\ \E f33 \in R033Files, f65 \in R065Files, out \in OutputPaths :
        LET path == IF out = NoPath THEN Path("results", "reporte_vpn", clock + 1) ELSE out
        IN  /\ args' = [r033_file |-> f33, r065_file |-> f65, output_path |-> out]
            /\ clock' = clock + 1
            /\ output_path' = path
            /\ IF MakedirsFails(path)
               THEN /\ result' = Raised
                    /\ main_pc' = "idle"
                    /\ pc' = [t \in Threads |-> "idle"]
               ELSE /\ result' = NoResult
                    /\ main_pc' = "join_loaders"
                    /\ pc' = [t \in Threads |->
                                IF t \in {"load_r033", "load_r065"} THEN "start" ELSE "idle"]
    /\ runs' = runs + 1
    /\ processing_complete' = FALSE
    /\ excel_ready' = FALSE
    /\ error_occurred' = FALSE
    /\ error_message' = NoMessage
    /\ load_errors' = <<>>
    /\ set_calls' = 0
    /\ steps' = NoSteps
    /\ bq_sent' = <<>>
    /\ merge_writes' = <<>>
    /\ UNCHANGED <<df_r033, df_r065, df_r065_filtrado, df_resultado, excel_path, workbooks>>

(* faulty variant: the workers are started whatever load_errors holds *)
MainJoinLoaders_IgnoresLoadErrors ==
    /\ main_pc = "join_loaders"
    /\ pc["load_r033"] = "done"
    /\ pc["load_r065"] = "done"
    /\ main_pc' = "join_workers"
    /\ pc' = [pc EXCEPT !["excel"] = "wait", !["bq"] = "filter"]
    /\ UNCHANGED <<fields, args, output_path, load_errors, result, merge_writes, workbooks,
                   clock, runs, set_calls, steps, bq_sent>>

(* main, lines 911-923: both loaders joined; a load error returns the error *)
(* response, otherwise start_threads starts the two workers (lines 816-828) *)
MainJoinLoaders ==
    /\ main_pc = "join_loaders"
    /\ pc["load_r033"] = "done"
    /\ pc["load_r065"] = "done"
    /\ IF load_errors # <<>>
       THEN /\ result' = BuildErrorResponse
            /\ main_pc' = "idle"
            /\ pc' = pc
       ELSE /\ result' = result
            /\ main_pc' = "join_workers"
            /\ pc' = [pc EXCEPT !["excel"] = "wait", !["bq"] = "filter"]
    /\ UNCHANGED <<fields, args, output_path, load_errors, merge_writes, workbooks,
                   clock, runs, set_calls, steps, bq_sent>>

(* faulty variant: main returns the success response whatever error_occurred holds *)
MainJoinWorkers_IgnoresFlag ==
    /\ main_pc = "join_workers"
    /\ pc["bq"] = "done"
    /\ pc["excel"] = "done"
    /\ result' = BuildSuccessResponse
    /\ main_pc' = "idle"
    /\ UNCHANGED <<fields, args, output_path, load_errors, pc, merge_writes, workbooks,
                   clock, runs, set_calls, steps, bq_sent>>

(* start_threads, lines 831-832, and main, lines 934-937 *)
MainJoinWorkers ==
    /\ main_pc = "join_workers"
    /\ pc["bq"] = "done"
    /\ pc["excel"] = "done"
    /\ result' = IF error_occurred THEN BuildErrorResponse ELSE BuildSuccessResponse
    /\ main_pc' = "idle"
    /\ UNCHANGED <<fields, args, output_path, load_errors, pc, merge_writes, workbooks,
                   clock, runs, set_calls, steps, bq_sent>>

----------------------------------------------------------------------------
(* The loader threads (_load_r033_thread, _load_r065_thread)               *)

(* load_r033 with its caller _load_r033_thread: the DataFrame is stored,   *)
(* or the except clause sets the error fields and the caller appends to    *)
(* load_errors                                                             *)
LoadR033 ==
    /\ pc["load_r033"] = "start"
    /\ IF LoadFails(args.r033_file)
       THEN /\ error_occurred' = TRUE
            /\ error_message' = "Error cargando R033"
            /\ load_errors' = Append(load_errors, "R033")
            /\ steps' = [steps EXCEPT !.load_r033 = "fail"]
            /\ df_r033' = df_r033
       ELSE /\ df_r033' = LoadDataFrame(args.r033_file, HEADERS_R033)
            /\ steps' = [steps EXCEPT !.load_r033 = "ok"]
            /\ UNCHANGED <<error_occurred, error_message, load_errors>>
    /\ pc' = [pc EXCEPT !["load_r033"] = "done"]
    /\ UNCHANGED <<df_r065, df_r065_filtrado, df_resultado, excel_path,
                   processing_complete, excel_ready, args, output_path, result, main_pc,
                   merge_writes, workbooks, clock, runs, set_calls, bq_sent>>

(* load_r065 with its caller _load_r065_thread *)
LoadR065 ==
    /\ pc["load_r065"] = "start"
    /\ IF LoadFails(args.r065_file)
       THEN /\ error_occurred' = TRUE
            /\ error_message' = "Error cargando R065"
            /\ load_errors' = Append(load_errors, "R065")
            /\ steps' = [steps EXCEPT !.load_r065 = "fail"]
            /\ df_r065' = df_r065
       ELSE /\ df_r065' = LoadDataFrame(args.r065_file, HEADERS_R065)
            /\ steps' = [steps EXCEPT !.load_r065 = "ok"]
            /\ UNCHANGED <<error_occurred, error_message, load_errors>>
    /\ pc' = [pc EXCEPT !["load_r065"] = "done"]
    /\ UNCHANGED <<df_r033, df_r065_filtrado, df_resultado, excel_path,
                   processing_complete, excel_ready, args, output_path, result, main_pc,
                   merge_writes, workbooks, clock, runs, set_calls, bq_sent>>

----------------------------------------------------------------------------
(* Hilo 2: _thread_bq_worker                                               *)

(* faulty variant: the except clause of filter_r065 leaves the error fields alone *)
BqFilter_NoFlag ==
    /\ pc["bq"] = "filter"
    /\ \E r \in {FilterR065(df_r065)} :
           IF r.ok
           THEN /\ df_r065_filtrado' = r.df
                /\ steps' = [steps EXCEPT !.filter = "ok"]
                /\ pc' = [pc EXCEPT !["bq"] = "merge"]
           ELSE /\ steps' = [steps EXCEPT !.filter = "fail"]
                /\ pc' = [pc EXCEPT !["bq"] = "set_failed"]
                /\ df_r065_filtrado' = df_r065_filtrado
    /\ UNCHANGED <<df_r033, df_r065, df_resultado, excel_path, processing_complete,
                   excel_ready, error_occurred, error_message, args, output_path,
                   load_errors, result, main_pc, merge_writes, workbooks, clock, runs,
                   set_calls, bq_sent>>

(* faulty variant: filter_r065 filters self.df_r065 itself instead of a copy *)
BqFilter_InPlace ==
    /\ pc["bq"] = "filter"
    /\ \E r \in {FilterR065(df_r065)} :
           IF r.ok
           THEN /\ df_r065_filtrado' = r.df
                /\ df_r065' = r.df
                /\ steps' = [steps EXCEPT !.filter = "ok"]
                /\ pc' = [pc EXCEPT !["bq"] = "merge"]
                /\ UNCHANGED <<error_occurred, error_message>>
           ELSE /\ error_occurred' = TRUE
                /\ error_message' = "Error filtrando R065"
                /\ steps' = [steps EXCEPT !.filter = "fail"]
                /\ pc' = [pc EXCEPT !["bq"] = "set_failed"]
                /\ UNCHANGED <<df_r065_filtrado, df_r065>>
    /\ UNCHANGED <<df_r033, df_resultado, excel_path, processing_complete,
                   excel_ready, args, output_path, load_errors, result, main_pc,
                   merge_writes, workbooks, clock, runs, set_calls, bq_sent>>

(* line 796: filter_r065 *)
BqFilter ==
    /\ pc["bq"] = "filter"
    /\ \E r \in {FilterR065(df_r065)} :
           IF r.ok
           THEN /\ df_r065_filtrado' = r.df
                /\ steps' = [steps EXCEPT !.filter = "ok"]
                /\ pc' = [pc EXCEPT !["bq"] = "merge"]
                /\ UNCHANGED <<error_occurred, error_message>>
           ELSE /\ error_occurred' = TRUE
                /\ error_message' = "Error filtrando R065"
                /\ steps' = [steps EXCEPT !.filter = "fail"]
                /\ pc' = [pc EXCEPT !["bq"] = "set_failed"]
                /\ df_r065_filtrado' = df_r065_filtrado
    /\ UNCHANGED <<df_r033, df_r065, df_resultado, excel_path, processing_complete,
                   excel_ready, args, output_path, load_errors, result, main_pc,
                   merge_writes, workbooks, clock, runs, set_calls, bq_sent>>

(* faulty variant: the worker returns after a failed process_and_merge without    *)
(* setting processing_complete                                             *)
BqMerge_ReturnsWithoutSet ==
    /\ pc["bq"] = "merge"
    /\ \E r \in {ProcessAndMerge(df_r033, df_r065_filtrado)} :
           IF r.ok
           THEN /\ df_resultado' = Head(r.writes)
                /\ merge_writes' = Tail(r.writes)
                /\ pc' = [pc EXCEPT !["bq"] = "merge_write"]
                /\ UNCHANGED <<error_occurred, error_message, steps>>
           ELSE /\ error_occurred' = TRUE
                /\ error_message' = r.msg
                /\ steps' = [steps EXCEPT !.merge = "fail"]
                /\ pc' = [pc EXCEPT !["bq"] = "done"]
                /\ UNCHANGED <<df_resultado, merge_writes>>
    /\ UNCHANGED <<df_r033, df_r065, df_r065_filtrado, excel_path, processing_complete,
                   excel_ready, args, output_path, load_errors, result, main_pc,
                   workbooks, clock, runs, set_calls, bq_sent>>

(* faulty variant: the join is made on self.df_r065_filtrado itself, which keeps the *)
(* looked-up columns                                                       *)
BqMerge_InPlace ==
    /\ pc["bq"] = "merge"
    /\ \E r \in {ProcessAndMerge(df_r033, df_r065_filtrado)} :
           IF r.ok
           THEN /\ df_resultado' = Head(r.writes)
                /\ df_r065_filtrado' = r.writes[2]
                /\ merge_writes' = Tail(r.writes)
                /\ pc' = [pc EXCEPT !["bq"] = "merge_write"]
                /\ UNCHANGED <<error_occurred, error_message, steps>>
           ELSE /\ error_occurred' = TRUE
                /\ error_message' = r.msg
                /\ steps' = [steps EXCEPT !.merge = "fail"]
                /\ pc' = [pc EXCEPT !["bq"] = "set_failed"]
                /\ UNCHANGED <<df_resultado, df_r065_filtrado, merge_writes>>
    /\ UNCHANGED <<df_r033, df_r065, excel_path, processing_complete,
                   excel_ready, args, output_path, load_errors, result, main_pc,
                   workbooks, clock, runs, set_calls, bq_sent>>

(* line 800: process_and_merge up to its first assignment to df_resultado  *)
(* (line 383), or to its failure                                           *)
BqMerge ==
    /\ pc["bq"] = "merge"
    /\ \E r \in {ProcessAndMerge(df_r033, df_r065_filtrado)} :
           IF r.ok
           THEN /\ df_resultado' = Head(r.writes)
                /\ merge_writes' = Tail(r.writes)
                /\ pc' = [pc EXCEPT !["bq"] = "merge_write"]
                /\ UNCHANGED <<error_occurred, error_message, steps>>
           ELSE /\ error_occurred' = TRUE
                /\ error_message' = r.msg
                /\ steps' = [steps EXCEPT !.merge = "fail"]
                /\ pc' = [pc EXCEPT !["bq"] = "set_failed"]
                /\ UNCHANGED <<df_resultado, merge_writes>>
    /\ UNCHANGED <<df_r033, df_r065, df_r065_filtrado, excel_path, processing_complete,
                   excel_ready, args, output_path, load_errors, result, main_pc,
                   workbooks, clock, runs, set_calls, bq_sent>>

(* process_and_merge, lines 390, 407 and 425: the next assignment to       *)
(* df_resultado; after the last one the method returns True                *)
BqMergeWrite ==
    /\ pc["bq"] = "merge_write"
    /\ df_resultado' = Head(merge_writes)
    /\ merge_writes' = Tail(merge_writes)
    /\ IF Tail(merge_writes) = <<>>
       THEN /\ pc' = [pc EXCEPT !["bq"] = "set"]
            /\ steps' = [steps EXCEPT !.merge = "ok"]
       ELSE UNCHANGED <<pc, steps>>
    /\ UNCHANGED <<df_r033, df_r065, df_r065_filtrado, excel_path, processing_complete,
                   excel_ready, error_occurred, error_message, args, output_path,
                   load_errors, result, main_pc, workbooks, clock, runs, set_calls,
                   bq_sent>>

(* faulty variant: the failure paths return without the signal *)
BqSetFailed_NoSet ==
    /\ pc["bq"] = "set_failed"
    /\ pc' = [pc EXCEPT !["bq"] = "done"]
    /\ UNCHANGED <<fields, args, output_path, load_errors, result, main_pc, merge_writes,
                   workbooks, clock, runs, set_calls, steps, bq_sent>>

(* faulty variant: after the signal on a failure path the worker goes on to upload_to_bigquery *)
BqSetFailed_ThenUpload ==
    /\ pc["bq"] = "set_failed"
    /\ processing_complete' = TRUE
    /\ set_calls' = set_calls + 1
    /\ pc' = [pc EXCEPT !["bq"] = "upload"]
    /\ UNCHANGED <<df_r033, df_r065, df_r065_filtrado, df_resultado, excel_path,
                   excel_ready, error_occurred, error_message, args, output_path,
                   load_errors, result, main_pc, merge_writes, workbooks, clock, runs,
                   steps, bq_sent>>

(* lines 797-798 and 801-802: the signal on the failure paths, then return *)
BqSetFailed ==
    /\ pc["bq"] = "set_failed"
    /\ processing_complete' = TRUE
    /\ set_calls' = set_calls + 1
    /\ pc' = [pc EXCEPT !["bq"] = "done"]
    /\ UNCHANGED <<df_r033, df_r065, df_r065_filtrado, df_resultado, excel_path,
                   excel_ready, error_occurred, error_message, args, output_path,
                   load_errors, result, main_pc, merge_writes, workbooks, clock, runs,
                   steps, bq_sent>>

(* line 805: the signal after a successful process_and_merge *)
BqSet ==
    /\ pc["bq"] = "set"
    /\ processing_complete' = TRUE
    /\ set_calls' = set_calls + 1
    /\ pc' = [pc EXCEPT !["bq"] = "upload"]
    /\ UNCHANGED <<df_r033, df_r065, df_r065_filtrado, df_resultado, excel_path,
                   excel_ready, error_occurred, error_message, args, output_path,
                   load_errors, result, main_pc, merge_writes, workbooks, clock, runs,
                   steps, bq_sent>>

----------------------------------------------------------------------------
(* PASO 6: _prepare_dataframe_for_bigquery                                 *)

(* COLUMN_MAPPING_BQ, in dict order: <<old_name, new_name>> *)
COLUMN_MAPPING_BQ ==
    << << <<"O", "R", "D", "E", "N", " ", "C", "O", "M", "P", "R", "A">>,
          <<"c", "o", "l", "_", "v", "p", "n", "_", "o", "r", "d", "e", "n", "_", "c", "o", "m", "p", "r", "a">> >>,
       << <<"N", "R", "O", " ", "F", "A", "C", "T", "U", "R", "A">>,
          <<"c", "o", "l", "_", "v", "p", "n", "_", "n", "r", "o", "_", "f", "a", "c", "t", "u", "r", "a">> >>,
       << <<"I", "D", " ", "P", "R", "O", "V", "E", "E", "D", "O", "R">>,
          <<"c", "o", "l", "_", "v", "p", "n", "_", "i", "d", "_", "p", "r", "o", "v", "e", "e", "d", "o", "r">> >>,
       << <<"N", "O", "M", "B", "R", "E", " ", "P", "R", "O", "V", "E", "E", "D", "O", "R">>,
          <<"c", "o", "l", "_", "v", "p", "n", "_", "n", "o", "m", "b", "r", "e", "_", "p", "r", "o", "v", "e", "e", "d", "o", "r">> >>,
       << <<"M", "E", "N", "S", "A", "J", "E">>,
          <<"c", "o", "l", "_", "v", "p", "n", "_", "m", "e", "n", "s", "a", "j", "e">> >>,
       << <<"I", "T", "E", "M", " ", "1">>,
          <<"c", "o", "l", "_", "v", "p", "n", "_", "i", "t", "e", "m", "_", "1">> >>,
       << <<"I", "T", "E", "M", " ", "2">>,
          <<"c", "o", "l", "_", "v", "p", "n", "_", "i", "t", "e", "m", "_", "2">> >>,
       << <<"V", "P", "N">>,
          <<"c", "o", "l", "_", "v", "p", "n", "_", "c", "o", "l", "u", "m", "n", "_", "v", "p", "n">> >>,
       << <<"I", "T", "E", "M", " ", "D", "E", "S", "C", "R", "I", "P", "C", "I", "O", "N">>,
          <<"c", "o", "l", "_", "v", "p", "n", "_", "i", "t", "e", "m", "_", "d", "e", "s", "c", "r", "i", "p", "c", "i", "o", "n">> >>,
       << <<"F", "E", "C", "H", "A", " ", "C", "R", "E", "A", "C", "I", "O", "N">>,
          <<"c", "o", "l", "_", "v", "p", "n", "_", "f", "e", "c", "h", "a", "_", "c", "r", "e", "a", "c", "i", "o", "n">> >>,
       << <<"N", "O", "M", "B", "R", "E", " ", "A", "R", "C", "H", "I", "V", "O">>,
          <<"c", "o", "l", "_", "v", "p", "n", "_", "n", "o", "m", "b", "r", "e", "_", "a", "r", "c", "h", "i", "v", "o">> >>,
       << <<"E", "S", "T", "A", "D", "O", " ", "F", "A", "C", "T", "U", "R", "A">>,
          <<"c", "o", "l", "_", "v", "p", "n", "_", "e", "s", "t", "a", "d", "o", "_", "f", "a", "c", "t", "u", "r", "a">> >>,
       << <<"I", "D", " ", "P", "R", "O", "V", "E", "E", "D", "O", "R", " ", "P", "A", "D", "R", "E">>,
          <<"c", "o", "l", "_", "v", "p", "n", "_", "i", "d", "_", "p", "r", "o", "v", "e", "e", "d", "o", "r", "_", "p", "a", "d", "r", "e">> >>,
       << <<"N", "O", "M", "B", "R", "E", " ", "P", "R", "O", "V", "E", "E", "D", "O", "R", " ", "P", "A", "D", "R", "E">>,
          <<"c", "o", "l", "_", "v", "p", "n", "_", "n", "o", "m", "b", "r", "e", "_", "p", "r", "o", "v", "e", "e", "d", "o", "r", "_", "p", "a", "d", "r", "e">> >>,
       << <<"F", "E", "C", "H", "A", " ", "F", "A", "C", "T", "U", "R", "A">>,
          <<"c", "o", "l", "_", "v", "p", "n", "_", "f", "e", "c", "h", "a", "_", "f", "a", "c", "t", "u", "r", "a">> >>,
       << <<"S", "U", "B", "T", "T", "O", "T", "A", "L">>,
          <<"c", "o", "l", "_", "v", "p", "n", "_", "s", "u", "b", "t", "o", "t", "a", "l">> >>,
       << <<"I", "M", "P", "U", "E", "S", "T", "O">>,
          <<"c", "o", "l", "_", "v", "p", "n", "_", "i", "m", "p", "u", "e", "s", "t", "o">> >>,
       << <<"T", "O", "T", "A", "L">>,
          <<"c", "o", "l", "_", "v", "p", "n", "_", "t", "o", "t", "a", "l">> >>,
       << <<"C", "e", "n", "t", "r", "o", " ", "d", "e", " ", "C", "o", "s", "t", "o">>,
          <<"c", "o", "l", "_", "v", "p", "n", "_", "c", "e", "n", "t", "r", "o", "_", "c", "o", "s", "t", "o">> >>,
       << <<"E", "s", "t", "a", "t", "u", "s", " ", "R", "0", "3", "3">>,
          <<"c", "o", "l", "_", "v", "p", "n", "_", "e", "s", "t", "a", "t", "u", "s", "_", "r", "0", "3", "3">> >>,
       << <<"G", "r", "u", "p", "o", " ", "d", "e", " ", "P", "a", "g", "o">>,
          <<"c", "o", "l", "_", "v", "p", "n", "_", "g", "r", "u", "p", "o", "_", "p", "a", "g", "o">> >> >>

FLOAT_COLUMNS_BQ ==
    { <<"c", "o", "l", "_", "v", "p", "n", "_", "s", "u", "b", "t", "o", "t", "a", "l">>,
      <<"c", "o", "l", "_", "v", "p", "n", "_", "i", "m", "p", "u", "e", "s", "t", "o">>,
      <<"c", "o", "l", "_", "v", "p", "n", "_", "t", "o", "t", "a", "l">> }

COL_VPN_FECHA_CREACION == <<"c", "o", "l", "_", "v", "p", "n", "_", "f", "e", "c", "h", "a", "_", "c", "r", "e", "a", "c", "i", "o", "n">>
COL_VPN_FECHA_FACTURA == <<"c", "o", "l", "_", "v", "p", "n", "_", "f", "e", "c", "h", "a", "_", "f", "a", "c", "t", "u", "r", "a">>
COL_VPN_TIMESTAMP == <<"c", "o", "l", "_", "v", "p", "n", "_", "t", "i", "m", "e", "s", "t", "a", "m", "p">>

(* DATE_COLUMNS_BQ.keys() *)
DATE_COLUMNS_BQ == {COL_VPN_FECHA_CREACION, COL_VPN_FECHA_FACTURA}

IsDigits(s) ==
    \E v \in {s} : v # <<>> /\ \A i \in 1..Len(v) : \E d \in 1..10 : DigitChars[d] = v[i]

RECURSIVE StrToInt(_)
StrToInt(s) ==
    Only({ IF v = <<>> THEN 0
           ELSE 10 * StrToInt(SubSeq(v, 1, Len(v) - 1))
                + ((CHOOSE d \in 1..10 : DigitChars[d] = v[Len(v)]) - 1)
           : v \in {s} })

(* pd.to_numeric(errors = 'coerce').fillna(0.0) on one cell: a number, the *)
(* number a numeral spells (the model's numerals are unsigned integers),   *)
(* otherwise 0.0                                                           *)
ToNumeric(c) ==
    IF c.t = "int" THEN [t |-> "float", s |-> <<>>, n |-> c.n]
    ELSE IF c.t = "str" /\ IsDigits(Strip(c.s))
    THEN [t |-> "float", s |-> <<>>, n |-> StrToInt(Strip(c.s))]
    ELSE [t |-> "float", s |-> <<>>, n |-> 0]

(* text of the shape dddd-dd-dd *)
IsIsoDate(s) ==
    \E v \in {s} :
        /\ Len(v) = 10
        /\ v[5] = "-"
        /\ v[8] = "-"
        /\ IsDigits(SubSeq(v, 1, 4) \o SubSeq(v, 6, 7) \o SubSeq(v, 9, 10))

(* pd.to_datetime(errors = 'coerce') on one cell: the date an ISO date     *)
(* text spells, NaT (a missing value) for other text and for NaN           *)
ToDatetime(c, date_type) ==
    IF c.t = "str" /\ IsIsoDate(Strip(c.s))
    THEN [t |-> date_type, s |-> Strip(c.s), n |-> 0]
    ELSE IF c.t = "int" THEN [t |-> date_type, s |-> <<>>, n |-> c.n]
    ELSE NaN

(* astype(str).replace('nan', '').replace('None', '') on one cell *)
ToBqString(c) ==
    Only({ IF s = <<"n", "a", "n">> \/ s = <<"N", "o", "n", "e">> THEN StrCell(<<>>)
           ELSE StrCell(s)
           : s \in {PyStr(c)} })

(* lines 694-698: the position of the first column whose trimmed,         *)
(* upper-cased label (labels[j]) equals the upper-cased key of mapping     *)
(* entry k, 0 when there is none                                           *)
MappedColumn(labels, k) ==
    Only({ First({j \in 1..Len(labels) : labels[j] = key})
           : key \in {Upper(COLUMN_MAPPING_BQ[k][1])} })

(* columns_renamed (lines 693-699): the new name of the column at position *)
(* i, or its own label when no entry of the mapping picks its label;       *)
(* mapped[k] is the column entry k of the mapping picks                    *)
RenamedLabel(df, mapped, i) ==
    Only({ IF ks = {} THEN df.cols[i]
           ELSE StrCell(COLUMN_MAPPING_BQ[CHOOSE k \in ks : \A h \in ks : h <= k][2])
           : ks \in {{k \in 1..Len(COLUMN_MAPPING_BQ) :
                        mapped[k] # 0 /\ df.cols[mapped[k]] = df.cols[i]}} })

(* the column labels after df_bq.rename(columns = columns_renamed) *)
RenamedColumns(df) ==
    Only({ [i \in 1..Len(df.cols) |-> RenamedLabel(df, mapped, i)]
           : mapped \in
               { Only({ [k \in 1..Len(COLUMN_MAPPING_BQ) |-> MappedColumn(labels, k)]
                        : labels \in {[j \in 1..Len(df.cols) |->
                                         Upper(Strip(PyStr(df.cols[j])))]} }) } })

(* the conversion of one cell by the new name of its column (lines         *)
(* 705-731), now being the reading of the clock                            *)
ConvertCell(col, c, now) ==
    IF col.t = "str" /\ col.s \in FLOAT_COLUMNS_BQ THEN ToNumeric(c)
    ELSE IF col = StrCell(COL_VPN_FECHA_CREACION) THEN ToDatetime(c, "datetime")
    ELSE IF col = StrCell(COL_VPN_FECHA_FACTURA) THEN ToDatetime(c, "date")
    ELSE IF col = StrCell(COL_VPN_TIMESTAMP) THEN [t |-> "datetime", s |-> <<>>, n |-> now]
    ELSE ToBqString(c)

(* the row-set over the renamed columns: every cell converted, and the     *)
(* timestamp column appended when no column carries its name               *)
PrepareWithColumns(df, cols, has_ts, now) ==
    DataFrame(IF has_ts THEN cols ELSE Append(cols, StrCell(COL_VPN_TIMESTAMP)),
              [r \in 1..Len(df.rows) |->
                  [i \in 1..(IF has_ts THEN Len(cols) ELSE Len(cols) + 1) |->
                      IF i <= Len(cols) THEN ConvertCell(cols[i], df.rows[r][i], now)
                      ELSE [t |-> "datetime", s |-> <<>>, n |-> now]]])

(* _prepare_dataframe_for_bigquery: the row-set built from a copy of       *)
(* df_resultado, stamped with the reading now of the clock                 *)
PrepareDataframeForBigquery(df, now) ==
    Only({ PrepareWithColumns(df, cols,
                              \E i \in 1..Len(cols) : cols[i] = StrCell(COL_VPN_TIMESTAMP),
                              now)
           : cols \in {RenamedColumns(df)} })

----------------------------------------------------------------------------
(* Hilo 2, continued: upload_to_bigquery                                   *)

(* faulty variant: the row-set is prepared in place, on df_resultado itself *)
BqUpload_InPlace ==
    /\ pc["bq"] = "upload"
    /\ \E df_bq \in {PrepareDataframeForBigquery(df_resultado, clock + 1)} :
        \E outcome \in UploadOutcomes :
            /\ bq_sent' = IF outcome \in {"raised", "no_connection"} THEN bq_sent
                          ELSE Append(bq_sent, df_bq)
            /\ df_resultado' = df_bq
            /\ steps' = [steps EXCEPT !.upload = outcome]
    /\ clock' = clock + 1
    /\ pc' = [pc EXCEPT !["bq"] = "done"]
    /\ UNCHANGED <<df_r033, df_r065, df_r065_filtrado, excel_path, processing_complete,
                   excel_ready, error_occurred, error_message, args, output_path,
                   load_errors, result, main_pc, merge_writes, workbooks, runs, set_calls>>

(* faulty variant: a failed connection or insert sets the error fields *)
BqUpload_FailureIsFatal ==
    /\ pc["bq"] = "upload"
    /\ \E df_bq \in {PrepareDataframeForBigquery(df_resultado, clock + 1)} :
        \E outcome \in UploadOutcomes :
            /\ bq_sent' = IF outcome \in {"raised", "no_connection"} THEN bq_sent
                          ELSE Append(bq_sent, df_bq)
            /\ steps' = [steps EXCEPT !.upload = outcome]
            /\ error_occurred' = (error_occurred \/ outcome # "ok")
            /\ error_message' = IF outcome # "ok" THEN "Error subiendo a BigQuery"
                                ELSE error_message
    /\ clock' = clock + 1
    /\ pc' = [pc EXCEPT !["bq"] = "done"]
    /\ UNCHANGED <<df_r033, df_r065, df_r065_filtrado, df_resultado, excel_path,
                   processing_complete, excel_ready, args, output_path, load_errors,
                   result, main_pc, merge_writes, workbooks, runs, set_calls>>

(* line 809: upload_to_bigquery.  The row-set is prepared from             *)
(* df_resultado; an exception or a failed connect() hands nothing over;    *)
(* otherwise insert_dataframe receives the row-set and may fail.  The      *)
(* return value is dropped by the worker.                                  *)
BqUpload ==
    /\ pc["bq"] = "upload"
    /\ \E df_bq \in {PrepareDataframeForBigquery(df_resultado, clock + 1)} :
        \E outcome \in UploadOutcomes :
            /\ bq_sent' = IF outcome \in {"raised", "no_connection"} THEN bq_sent
                          ELSE Append(bq_sent, df_bq)
            /\ steps' = [steps EXCEPT !.upload = outcome]
    /\ clock' = clock + 1
    /\ pc' = [pc EXCEPT !["bq"] = "done"]
    /\ UNCHANGED <<fields, args, output_path, load_errors, result, main_pc,
                   merge_writes, workbooks, runs, set_calls>>

----------------------------------------------------------------------------
(* Hilo 1: _thread_excel_worker                                            *)

(* faulty variant: the worker does not wait for processing_complete *)
ExcelWait_NoWait ==
    /\ pc["excel"] = "wait"
    /\ pc' = [pc EXCEPT !["excel"] = "check"]
    /\ UNCHANGED <<fields, args, output_path, load_errors, result, main_pc,
                   merge_writes, workbooks, clock, runs, set_calls, steps, bq_sent>>

(* line 780: processing_complete.wait() *)
ExcelWait ==
    /\ pc["excel"] = "wait"
    /\ processing_complete
    /\ pc' = [pc EXCEPT !["excel"] = "check"]
    /\ UNCHANGED <<fields, args, output_path, load_errors, result, main_pc,
                   merge_writes, workbooks, clock, runs, set_calls, steps, bq_sent>>

(* faulty variant: the worker goes on to create_excel without reading the flag *)
ExcelCheck_IgnoresFlag ==
    /\ pc["excel"] = "check"
    /\ pc' = [pc EXCEPT !["excel"] = "create"]
    /\ UNCHANGED <<fields, args, output_path, load_errors, result, main_pc,
                   merge_writes, workbooks, clock, runs, set_calls, steps, bq_sent>>

(* lines 782-785: the error flag is read; on an error the worker sets      *)
(* excel_ready and returns                                                 *)
ExcelCheck ==
    /\ pc["excel"] = "check"
    /\ IF error_occurred
       THEN /\ excel_ready' = TRUE
            /\ pc' = [pc EXCEPT !["excel"] = "done"]
       ELSE /\ excel_ready' = excel_ready
            /\ pc' = [pc EXCEPT !["excel"] = "create"]
    /\ UNCHANGED <<df_r033, df_r065, df_r065_filtrado, df_resultado, excel_path,
                   processing_complete, error_occurred, error_message, args, output_path,
                   load_errors, result, main_pc, merge_writes, workbooks, clock, runs,
                   set_calls, steps, bq_sent>>

(* _create_resumen                                                         *)

NOMBRE_PROVEEDOR_PADRE == <<"N", "O", "M", "B", "R", "E", " ", "P", "R", "O", "V", "E", "E", "D", "O", "R", " ", "P", "A", "D", "R", "E">>
NRO_FACTURA == <<"N", "R", "O", " ", "F", "A", "C", "T", "U", "R", "A">>
TOTAL == <<"T", "O", "T", "A", "L">>
ITEM_DESCRIPCION == <<"I", "T", "E", "M", " ", "D", "E", "S", "C", "R", "I", "P", "C", "I", "O", "N">>
PROVEEDOR == StrCell(<<"P", "r", "o", "v", "e", "e", "d", "o", "r">>)
NUMERO_DE_FACTURAS == StrCell(<<"N", "ú", "m", "e", "r", "o", " ", "d", "e", " ", "F", "a", "c", "t", "u", "r", "a", "s">>)
MONTO_TOTAL == StrCell(<<"M", "o", "n", "t", "o", " ", "T", "o", "t", "a", "l">>)
NUMERO_DE_ITEMS == StrCell(<<"N", "ú", "m", "e", "r", "o", " ", "d", "e", " ", "Í", "t", "e", "m", "s">>)

(* a numeric cell of 'Monto Total' (the model keeps its value, not its dtype) *)
FloatCell(n) == [t |-> "float", s |-> <<>>, n |-> n]

(* pd.DataFrame(): no columns, no rows; DataFrame.empty is True *)
EmptyFrame == DataFrame(<<>>, <<>>)

(* sum of the numbers f[i] for the positions i <= n that are in S *)
RECURSIVE SumUpTo(_, _, _)
SumUpTo(f, S, n) ==
    IF n = 0 THEN 0 ELSE SumUpTo(f, S, n - 1) + (IF n \in S THEN f[n] ELSE 0)

(* Series.sum() of the numbers f over the positions S *)
SumOver(f, S) == SumUpTo(f, S, Len(f))

(* Series.nunique(): the number of distinct values, missing ones left out *)
NUnique(cells) == Cardinality({c \in cells : NotNa(c)})

(* the group of a supplier in df.groupby(proveedor_col): its row positions *)
GroupRows(rows, prov, s) == {r \in 1..Len(rows) : rows[r][prov] = s}

(* the row positions drop_duplicates(subset = [proveedor_col, factura_col]) *)
(* keeps: the first row of every (supplier, invoice) pair                  *)
FirstOfPair(rows, prov, fact) ==
    {r \in 1..Len(rows) :
        \A q \in 1..(r - 1) :
            ~(rows[q][prov] = rows[r][prov] /\ rows[q][fact] = rows[r][fact])}

(* the amounts after pd.to_numeric(errors = 'coerce').fillna(0), line 485 *)
Montos(rows, monto) == [r \in 1..Len(rows) |-> ToNumeric(rows[r][monto]).n]

(* faulty variant: the amounts of all the rows of the supplier are added up *)
ResumenRow_SumsEveryRow(rows, c, s) ==
    Only({ << s,
              IntCell(IF c.fact = 0 THEN Cardinality(g)
                      ELSE NUnique({rows[r][c.fact] : r \in g})),
              IF c.fact = 0 \/ c.monto = 0 THEN IntCell(0)
              ELSE FloatCell(SumOver(Montos(rows, c.monto), g)),
              IntCell(IF c.item = 0 THEN Cardinality(g)
                      ELSE NUnique({rows[r][c.item] : r \in g})) >>
           : g \in {GroupRows(rows, c.prov, s)} })

(* the summary row of supplier s, lines 490-525: Proveedor, 'Número de      *)
(* Facturas', 'Monto Total', 'Número de Ítems'; c holds the positions of    *)
(* the four columns looked up (0 is None)                                  *)
ResumenRow(rows, c, s) ==
    Only({ << s,
              IntCell(IF c.fact = 0 THEN Cardinality(g)
                      ELSE NUnique({rows[r][c.fact] : r \in g})),
              IF c.fact = 0 \/ c.monto = 0 THEN IntCell(0)
              ELSE FloatCell(SumOver(Montos(rows, c.monto),
                                     g \cap FirstOfPair(rows, c.prov, c.fact))),
              IntCell(IF c.item = 0 THEN Cardinality(g)
                      ELSE NUnique({rows[r][c.item] : r \in g})) >>
           : g \in {GroupRows(rows, c.prov, s)} })

(* faulty variant: the total of the invoices is the number of summary rows *)
FilaTotales_CountsRows(resumen) ==
    << StrCell(TOTAL),
       IntCell(Len(resumen)),
       FloatCell(SumOver([i \in 1..Len(resumen) |-> resumen[i][3].n], 1..Len(resumen))),
       IntCell(SumOver([i \in 1..Len(resumen) |-> resumen[i][4].n], 1..Len(resumen))) >>

(* fila_totales, lines 538-552: the sums of the three numeric columns *)
FilaTotales(resumen) ==
    << StrCell(TOTAL),
       IntCell(SumOver([i \in 1..Len(resumen) |-> resumen[i][2].n], 1..Len(resumen))),
       FloatCell(SumOver([i \in 1..Len(resumen) |-> resumen[i][3].n], 1..Len(resumen))),
       IntCell(SumOver([i \in 1..Len(resumen) |-> resumen[i][4].n], 1..Len(resumen))) >>

(* the orders sort_values('Monto Total', ascending = False) can leave the  *)
(* summary rows in: the default sort is not stable, so rows with equal     *)
(* amounts come in any order                                               *)
SortedByMonto(summary) ==
    { o \in [1..Cardinality(DOMAIN summary) -> DOMAIN summary] :
        /\ \A i, j \in DOMAIN o : o[i] = o[j] => i = j
        /\ \A i, j \in DOMAIN o : i < j => summary[o[i]][3].n >= summary[o[j]][3].n }

(* the summary rows in one of these orders, then the TOTAL row (line 554) *)
ResumenFrame(sorted) ==
    DataFrame(<<PROVEEDOR, NUMERO_DE_FACTURAS, MONTO_TOTAL, NUMERO_DE_ITEMS>>,
              Append(sorted, FilaTotales(sorted)))

(* the summaries of rows with the four columns c: one row per supplier     *)
(* (groupby leaves out the rows without one)                               *)
ResumenWithColumns(rows, c) ==
    UNION { { ResumenFrame([i \in DOMAIN o |-> summary[o[i]]]) : o \in SortedByMonto(summary) }
            : summary \in {[s \in {rows[r][c.prov] : r \in 1..Len(rows)} \ {NaN} |->
                               ResumenRow(rows, c, s)]} }

(* _create_resumen: the DataFrames it can return for df_resultado.  The    *)
(* empty DataFrame is returned without the supplier column (line 476) and  *)
(* from the except clause (None.copy(), or a label carried by several      *)
(* columns where a single column is needed; the model's inputs carry each  *)
(* label at most once)                                                     *)
CreateResumen(df) ==
    IF df.none THEN {EmptyFrame}
    ELSE UNION {
        IF c.prov = 0 THEN {EmptyFrame}
        ELSE IF \E k \in {c.prov, c.fact, c.monto, c.item} \ {0} :
                    Cardinality(SameLabel(df, k)) > 1
        THEN {EmptyFrame}
        ELSE ResumenWithColumns(df.rows, c)
        : c \in {[prov  |-> FindColumn(df, <<NOMBRE_PROVEEDOR_PADRE>>, TRUE),
                  fact  |-> FindColumn(df, <<NRO_FACTURA>>, FALSE),
                  monto |-> FindColumn(df, <<TOTAL>>, TRUE),
                  item  |-> FindColumn(df, <<ITEM_DESCRIPCION>>, TRUE)]} }

(* the workbook pd.ExcelWriter leaves at path: the sheet Resumen, written  *)
(* only when the summary is not empty (NoDataFrame stands for no sheet),   *)
(* and the sheet Resultado                                                 *)
Workbook(path, resumen, resultado) ==
    [path |-> path,
     Resumen |-> IF resumen = EmptyFrame THEN NoDataFrame ELSE resumen,
     Resultado |-> resultado]

(* lines 787-788: create_excel, then excel_ready.set().  The workbook is   *)
(* rendered from the summary and df_resultado and excel_path is set, or    *)
(* the writer raises (destination not writable) and the except clause sets *)
(* the error fields                                                        *)
ExcelCreate ==
    /\ pc["excel"] = "create"
    /\ \/ /\ \E resumen \in CreateResumen(df_resultado) :
                workbooks' = {w \in workbooks : w.path # output_path}
                                \cup {Workbook(output_path, resumen, df_resultado)}
          /\ excel_path' = output_path
          /\ steps' = [steps EXCEPT !.render = "ok"]
          /\ UNCHANGED <<error_occurred, error_message>>
       \/ /\ error_occurred' = TRUE
          /\ error_message' = "Error creando Excel"
          /\ steps' = [steps EXCEPT !.render = "fail"]
          /\ UNCHANGED <<workbooks, excel_path>>
    /\ excel_ready' = TRUE
    /\ pc' = [pc EXCEPT !["excel"] = "done"]
    /\ UNCHANGED <<df_r033, df_r065, df_r065_filtrado, df_resultado, processing_complete,
                   args, output_path, load_errors, result, main_pc, merge_writes, clock,
                   runs, set_calls, bq_sent>>

----------------------------------------------------------------------------
(* The program                                                             *)

Next ==
    \/ MainStart
    \/ MainJoinLoaders
    \/ MainJoinWorkers
    \/ LoadR033
    \/ LoadR065
    \/ BqFilter
    \/ BqMerge
    \/ BqMergeWrite
    \/ BqSetFailed
    \/ BqSet
    \/ BqUpload
    \/ ExcelWait
    \/ ExcelCheck
    \/ ExcelCreate

Spec == Init /\ [][Next]_vars

(* every started thread keeps running, and main keeps running once called; *)
(* a further call of main is up to the caller                              *)
FairSpec ==
    /\ Spec
    /\ WF_vars(MainJoinLoaders \/ MainJoinWorkers)
    /\ WF_vars(LoadR033)
    /\ WF_vars(LoadR065)
    /\ WF_vars(BqFilter \/ BqMerge \/ BqMergeWrite \/ BqSetFailed \/ BqSet \/ BqUpload)
    /\ WF_vars(ExcelWait \/ ExcelCheck \/ ExcelCreate)

----------------------------------------------------------------------------
(* Properties                                                              *)

(* main has returned a ProcessingResult for the current run *)
Returned == result.kind \in {"error", "success"}

LoadFailed == steps.load_r033 = "fail" \/ steps.load_r065 = "fail"

ReconcileFailed == steps.filter = "fail" \/ steps.merge = "fail"

(* the reconciliation task has not yet passed its processing_complete.set() *)
BeforeSignal == pc["bq"] \in {"filter", "merge", "merge_write", "set", "set_failed"}

UploadStep == pc["bq"] = "upload" /\ pc'["bq"] = "done"

CreateStep == pc["excel"] = "create" /\ pc'["excel"] = "done"

(* C1: whenever the workbook task is at create_excel, where it reads        *)
(* df_resultado, the reconciliation task has fired processing_complete in  *)
(* this run and has made its last assignment to df_resultado.              *)
C1_NoReadBeforeSignal ==
    pc["excel"] = "create" =>
        /\ processing_complete
        /\ set_calls = 1
        /\ pc["bq"] \in {"upload", "done"}
        /\ merge_writes = <<>>
        /\ steps.merge = "ok"

C1_Witness == pc["excel"] = "create" /\ pc["bq"] = "upload" /\ ~df_resultado.none

(* C2 as stated: every run that returns a ProcessingResult has fired the    *)
(* completion signal exactly once.                                         *)
C2_SignalOncePerRun == Returned => set_calls = 1

(* C2, amended: the signal fires at most once per run; it has fired        *)
(* exactly once when the reconciliation task ends, whether filter and      *)
(* reconcile succeeded or failed, and exactly once in every returned run   *)
(* whose loads succeeded; a run aborted by a load error never fires it.    *)
C2_SignalOncePerStartedRun ==
    /\ set_calls <= 1
    /\ processing_complete <=> set_calls = 1
    /\ pc["bq"] \in {"upload", "done"} => set_calls = 1
    /\ Returned => set_calls = (IF load_errors = <<>> THEN 1 ELSE 0)

C2_Witness ==
    /\ Returned
    /\ steps.merge = "fail"
    /\ set_calls = 1
    /\ pc["excel"] = "done"

(* C3: once filter_r065 or process_and_merge has failed, the error flag is *)
(* set, the signal fires (the worker ends only after set()), the workbook  *)
(* task never reaches create_excel, and no step of the run writes a        *)
(* workbook or assigns excel_path; under fair scheduling the signal does   *)
(* fire and the workbook task ends.                                        *)
C3_FailureSkipsWorkbook ==
    /\ [](ReconcileFailed =>
            /\ error_occurred
            /\ pc["excel"] \in {"wait", "check", "done"}
            /\ steps.render = "none"
            /\ (pc["bq"] = "done" => processing_complete /\ set_calls = 1)
            /\ (pc["excel"] # "wait" => processing_complete))
    /\ [][ReconcileFailed => (excel_path' = excel_path /\ workbooks' = workbooks)]_vars
    /\ ReconcileFailed ~> (processing_complete /\ pc["excel"] = "done" /\ excel_ready)

C3_Witness ==
    /\ steps.filter = "fail"
    /\ processing_complete
    /\ pc["excel"] = "done"
    /\ excel_ready
    /\ main_pc = "join_workers"

(* C4: df_resultado and df_r065_filtrado change only in steps of the        *)
(* reconciliation task taken before the signal, while the workbook task is *)
(* still waiting; whenever the reconciliation task is before its signal    *)
(* the workbook task is in wait().                                         *)
C4_SingleWriterBeforeSignal ==
    /\ [](BeforeSignal => pc["excel"] = "wait")
    /\ [][(df_resultado' # df_resultado \/ df_r065_filtrado' # df_r065_filtrado) =>
            /\ BeforeSignal
            /\ pc["bq"] \in {"filter", "merge", "merge_write"}
            /\ ~processing_complete
            /\ set_calls = 0
            /\ pc["excel"] = "wait"
            /\ pc'["excel"] = "wait"]_vars

C4_Witness ==
    /\ pc["bq"] = "merge_write"
    /\ merge_writes # <<>>
    /\ ~df_resultado.none
    /\ pc["excel"] = "wait"

(* C5 as stated: once the error flag is set, the sibling task does not go  *)
(* on to act on shared state: the workbook task does not build the         *)
(* workbook and the warehouse path does not prepare and append the rows.   *)
C5_FlagStopsSibling ==
    [][error_occurred => (~CreateStep /\ ~UploadStep)]_vars

(* C5, amended: a failed filter, reconcile or render sets the error flag;  *)
(* the workbook task reads the flag after the signal and builds the        *)
(* workbook only when it is clear; the flag set by a failed render is read *)
(* by main after both tasks are joined and decides the result.             *)
C5_FlagSetAndReadBeforeWorkbook ==
    /\ []((ReconcileFailed \/ steps.render = "fail") => error_occurred)
    /\ [][(pc["excel"] = "check" /\ pc'["excel"] = "create") =>
            (processing_complete /\ ~error_occurred)]_vars
    /\ [][CreateStep => ~error_occurred]_vars
    /\ [](Returned => (result.kind = "error" <=> error_occurred))

C5_Witness ==
    /\ steps.render = "fail"
    /\ steps.upload = "ok"
    /\ bq_sent # <<>>
    /\ Returned
    /\ result.kind = "error"

(* C6: under fair scheduling every call of main that starts the loaders    *)
(* returns a ProcessingResult, the workbook task leaves wait() and ends,   *)
(* the reconciliation task ends, and no thread is still running when main  *)
(* has returned.                                                           *)
C6_EveryRunTerminates ==
    /\ (main_pc # "idle") ~> (main_pc = "idle" /\ Returned)
    /\ (pc["excel"] = "wait") ~> (pc["excel"] = "done")
    /\ (pc["bq"] = "filter") ~> (pc["bq"] = "done")
    /\ [](main_pc = "idle" => \A t \in Threads : pc[t] \in {"idle", "done"})

C6_Witness ==
    /\ main_pc = "idle"
    /\ Returned
    /\ steps.merge = "fail"
    /\ pc["bq"] = "done"
    /\ pc["excel"] = "done"
    /\ runs = MaxRuns

(* the response of a failed run carrying message msg *)
ErrorResult(msg) ==
    [kind |-> "error", success |-> FALSE, error |-> msg, excel_path |-> NoPath]

(* what a run on the files a, with the render outcome render and the       *)
(* output path out, gives when its tasks run one after the other in the    *)
(* order main starts them (R033 loader, R065 loader, reconciliation task,  *)
(* workbook task): the returned result and the reconciled row-set          *)
SequentialAfterMerge(df33, df65, f, m, render, out) ==
    IF ~m.ok THEN [result |-> ErrorResult(m.msg), resultado |-> NoDataFrame]
    ELSE IF render = "fail"
    THEN [result |-> ErrorResult("Error creando Excel"), resultado |-> m.writes[4]]
    ELSE [result |->
            [kind |-> "success", success |-> TRUE, error |-> NoMessage,
             excel_path |-> out,
             rows_processed |-> Len(m.writes[4].rows),
             rows_r033 |-> Len(df33.rows),
             rows_r065_original |-> Len(df65.rows),
             rows_r065_filtrado |-> Len(f.df.rows)],
          resultado |-> m.writes[4]]

SequentialAfterFilter(df33, df65, f, render, out) ==
    IF ~f.ok
    THEN [result |-> ErrorResult("Error filtrando R065"), resultado |-> NoDataFrame]
    ELSE Only({ SequentialAfterMerge(df33, df65, f, m, render, out)
                : m \in {ProcessAndMerge(df33, f.df)} })

SequentialAfterLoad(df33, df65, render, out) ==
    Only({ SequentialAfterFilter(df33, df65, f, render, out) : f \in {FilterR065(df65)} })

SequentialRun(a, render, out) ==
    IF LoadFails(a.r065_file)
    THEN [result |-> ErrorResult("Error cargando R065"), resultado |-> NoDataFrame]
    ELSE IF LoadFails(a.r033_file)
    THEN [result |-> ErrorResult("Error cargando R033"), resultado |-> NoDataFrame]
    ELSE Only({ SequentialAfterLoad(df33, df65, render, out)
                : df33 \in {LoadDataFrame(a.r033_file, HEADERS_R033)},
                  df65 \in {LoadDataFrame(a.r065_file, HEADERS_R065)} })

(* C7: the result main returns, and the reconciled row-set when            *)
(* process_and_merge succeeded, are those of the run whose tasks execute   *)
(* one after the other in program order, whatever the interleaving was     *)
C7_Deterministic ==
    Returned =>
        \E e \in {SequentialRun(args, steps.render, output_path)} :
            /\ result = e.result
            /\ steps.merge = "ok" => df_resultado = e.resultado

(* C8: a run whose loads, filter, reconcile and render succeeded returns   *)
(* success = true whatever upload_to_bigquery did, and the upload step     *)
(* leaves error_occurred and error_message as they were                    *)
C8_UploadFailureNotFatal ==
    /\ [](( /\ Returned
            /\ steps.load_r033 = "ok" /\ steps.load_r065 = "ok"
            /\ steps.filter = "ok" /\ steps.merge = "ok" /\ steps.render = "ok")
          => (result.kind = "success" /\ result.success))
    /\ [][UploadStep => /\ error_occurred' = error_occurred
                        /\ error_message' = error_message]_vars

C8_Witness ==
    /\ result.kind = "success"
    /\ result.success
    /\ steps.upload \in {"raised", "no_connection", "insert_failed"}
    /\ ~error_occurred

(* C9: in a run where a load failed, neither worker is ever started, no    *)
(* filter, reconcile, render or upload step is taken, the signal is not    *)
(* fired, no shared row-set or workbook changes, and main returns the      *)
(* error response                                                          *)
C9_LoadFailureAborts ==
    /\ [](LoadFailed =>
            /\ error_occurred
            /\ pc["excel"] = "idle" /\ pc["bq"] = "idle"
            /\ steps.filter = "none" /\ steps.merge = "none"
            /\ steps.render = "none" /\ steps.upload = "none"
            /\ bq_sent = <<>>
            /\ set_calls = 0)
    /\ []((LoadFailed /\ main_pc = "idle") => (result.kind = "error" /\ ~result.success))
    /\ [][LoadFailed => UNCHANGED <<workbooks, df_resultado, df_r065_filtrado,
                                    excel_path>>]_vars

C9_Witness ==
    /\ result.kind = "error"
    /\ steps.load_r033 = "ok"
    /\ steps.load_r065 = "fail"
    /\ main_pc = "idle"

(* the messages the except clauses of the failed steps of this run set *)
FailureMessages ==
    (IF steps.load_r033 = "fail" THEN {"Error cargando R033"} ELSE {})
    \cup (IF steps.load_r065 = "fail" THEN {"Error cargando R065"} ELSE {})
    \cup (IF steps.filter = "fail" THEN {"Error filtrando R065"} ELSE {})
    \cup (IF steps.merge = "fail"
          THEN {"No se encontró columna Orden de Compra en R065",
                "No se encontró columna Orden de Compra en R033",
                "Error en procesamiento"}
          ELSE {})
    \cup (IF steps.render = "fail" THEN {"Error creando Excel"} ELSE {})

(* C10: a run in which a load, the filter, the reconcile or the render     *)
(* failed returns success = false, one error string, set by a failed       *)
(* step, and no output location                                            *)
C10_FailureResult ==
    (Returned /\ (LoadFailed \/ ReconcileFailed \/ steps.render = "fail")) =>
        /\ result.kind = "error"
        /\ ~result.success
        /\ result.error # NoMessage
        /\ result.error \in FailureMessages
        /\ result.excel_path = NoPath

C10_Witness ==
    /\ result.kind = "error"
    /\ steps.render = "fail"
    /\ excel_path # NoPath
    /\ \E w \in workbooks : w.path = excel_path

----------------------------------------------------------------------------
(* Bounded inputs of the reconciliation: generated R033 and R065 sheets     *)

(* the sequences over S of length at most n *)
SeqsUpTo(S, n) == UNION {[1..k -> S] : k \in 0..n}

MaxRows33 == 2
MaxRows65 == 2
MaxRowsFiltro == 2

(* header row of the generated R033 sheets: order key, Tienda, Estatus *)
R033_Header == << StrCell(<<"O", "r", "d", "e", "n", " ", "d", "e", " ", "C", "o", "m", "p", "r", "a">>), StrCell(<<"T", "i", "e", "n", "d", "a">>), StrCell(<<"E", "s", "t", "a", "t", "u", "s">>) >>

(* data rows of the generated R033 sheets: the order key 100 as a number   *)
(* (twice) and as text, 200 as text and as padded text; Tienda values with *)
(* and without CENDIS, blank and missing                                   *)
R033_Rows ==
    { << IntCell(100), StrCell(<<"C", "E", "N", "D", "I", "S", " ", "N", "o", "r", "t", "e">>), StrCell(<<"A">>) >>,
      << StrCell(<<"1", "0", "0">>), StrCell(<<"T", "1">>), StrCell(<<"B">>) >>,
      << StrCell(<<" ", "2", "0", "0", " ">>), StrCell(<<"c", "e", "n", "d", "i", "s", " ", "s", "u", "r">>), StrCell(<<"C">>) >>,
      << StrCell(<<"2", "0", "0">>), StrCell(<<" ", " ">>), StrCell(<<"A">>) >>,
      << IntCell(300), NaN, StrCell(<<"A">>) >>,
      << IntCell(100), StrCell(<<"T", "2">>), StrCell(<<"B">>) >> }

R033_Generated ==
    { ExcelFile(<<R033_Header>> \o rows) : rows \in SeqsUpTo(R033_Rows, MaxRows33) }

(* header row of the generated R065 sheets *)
R065_Header == << StrCell(<<"O", "R", "D", "E", "N", " ", "C", "O", "M", "P", "R", "A">>), StrCell(<<"N", "R", "O", " ", "F", "A", "C", "T", "U", "R", "A">>), StrCell(<<"M", "E", "N", "S", "A", "J", "E">>), StrCell(<<"N", "O", "M", "B", "R", "E", " ", "P", "R", "O", "V", "E", "E", "D", "O", "R", " ", "P", "A", "D", "R", "E">>), StrCell(<<"T", "O", "T", "A", "L">>) >>

(* data rows of the generated R065 sheets, all carrying the sentinel       *)
(* message: order keys matched by R033 rows and one matched by none        *)
R065_Rows ==
    { << IntCell(100), StrCell(<<"F", "1">>), SENTINEL, StrCell(<<"P", "1">>), IntCell(100) >>,
      << StrCell(<<"2", "0", "0">>), StrCell(<<"F", "2">>), SENTINEL, StrCell(<<"P", "2">>), IntCell(50) >>,
      << IntCell(400), StrCell(<<"F", "3">>), SENTINEL, StrCell(<<"P", "1">>), IntCell(70) >> }

R065_Generated ==
    { ExcelFile(<<R065_Header>> \o rows) : rows \in SeqsUpTo(R065_Rows, MaxRows65) }

(* header rows of the R065 sheets the filter is exercised on: the message  *)
(* column labelled MENSAJE, labelled with MENSAJE inside a longer mixed-   *)
(* case label, absent, followed by a second column containing MENSAJE, and *)
(* followed by a second column with the very same label                    *)
R065_FiltroHeaders ==
    { << StrCell(<<"O", "R", "D", "E", "N", " ", "C", "O", "M", "P", "R", "A">>), StrCell(<<"M", "E", "N", "S", "A", "J", "E">>), StrCell(<<"O", "B", "S">>) >>,
      << StrCell(<<"O", "R", "D", "E", "N", " ", "C", "O", "M", "P", "R", "A">>), StrCell(<<"M", "e", "n", "s", "a", "j", "e", " ", "E", "r", "r", "o", "r">>), StrCell(<<"O", "B", "S">>) >>,
      << StrCell(<<"O", "R", "D", "E", "N", " ", "C", "O", "M", "P", "R", "A">>), StrCell(<<"D", "E", "T", "A", "L", "L", "E">>), StrCell(<<"O", "B", "S">>) >>,
      << StrCell(<<"O", "R", "D", "E", "N", " ", "C", "O", "M", "P", "R", "A">>), StrCell(<<"M", "E", "N", "S", "A", "J", "E">>), StrCell(<<"M", "E", "N", "S", "A", "J", "E", " ", "2">>) >>,
      << StrCell(<<"O", "R", "D", "E", "N", " ", "C", "O", "M", "P", "R", "A">>), StrCell(<<"M", "E", "N", "S", "A", "J", "E">>), StrCell(<<"M", "E", "N", "S", "A", "J", "E">>) >> }

(* message cells: the sentinel, the sentinel padded, the sentinel in       *)
(* another case, another message, a missing value                          *)
MensajeValues ==
    { SENTINEL,
      StrCell(<<" ">> \o MENSAJE_FILTRO_R065 \o <<" ", " ">>),
      StrCell(Upper(MENSAJE_FILTRO_R065)),
      StrCell(<<"o", "t", "r", "o">>),
      NaN }

(* data rows under these headers: an order key R033_Good matches, a        *)
(* message, and the sentinel in the third cell                             *)
R065_FiltroRows == { << IntCell(1), m, SENTINEL >> : m \in MensajeValues }

R065_FiltroGenerated ==
    { ExcelFile(<<h>> \o rows) :
        h \in R065_FiltroHeaders, rows \in SeqsUpTo(R065_FiltroRows, MaxRowsFiltro) }

(* the pairs of files the reconciliation is checked on: every generated    *)
(* R033 with every generated R065, the filter sheets against one R033, and *)
(* the files without an order-key column                                   *)
ReconcileInputs ==
    (R033_Generated \X R065_Generated)
        \cup ({R033_Good} \X R065_FiltroGenerated)
        \cup {<<R033_NoOrden, R065_Good>>, <<R033_Good, R065_NoOrden>>}

(* the state main reaches on its first call with these files, once         *)
(* os.makedirs succeeded and the two loader threads are started (lines     *)
(* 865-909)                                                                *)
StartedWith(f33, f65) ==
    /\ df_r033 = NoDataFrame
    /\ df_r065 = NoDataFrame
    /\ df_r065_filtrado = NoDataFrame
    /\ df_resultado = NoDataFrame
    /\ excel_path = NoPath
    /\ processing_complete = FALSE
    /\ excel_ready = FALSE
    /\ error_occurred = FALSE
    /\ error_message = NoMessage
    /\ args = [r033_file |-> f33, r065_file |-> f65, output_path |-> NoPath]
    /\ output_path = Path("results", "reporte_vpn", 1)
    /\ load_errors = <<>>
    /\ result = NoResult
    /\ main_pc = "join_loaders"
    /\ pc = [t \in Threads |-> IF t \in {"load_r033", "load_r065"} THEN "start" ELSE "idle"]
    /\ merge_writes = <<>>
    /\ workbooks = {}
    /\ clock = 1
    /\ runs = 1
    /\ set_calls = 0
    /\ steps = NoSteps
    /\ bq_sent = <<>>

ReconcileInit == \E in \in ReconcileInputs : StartedWith(in[1], in[2])

(* the load, the filter and the merge of one run: the steps up to the      *)
(* signal of the bq worker                                                 *)
ReconcileNext ==
    \/ LoadR033
    \/ LoadR065
    \/ MainJoinLoaders
    \/ BqFilter
    \/ BqMerge
    \/ BqMergeWrite
    \/ BqSetFailed
    \/ BqSet

ReconcileSpec == ReconcileInit /\ [][ReconcileNext]_vars

----------------------------------------------------------------------------
(* Properties of the reconciliation                                        *)

(* process_and_merge returned True in this run: df_resultado holds the     *)
(* reconciled output                                                       *)
Reconciled == steps.merge = "ok" /\ pc["bq"] \in {"set", "upload", "done"}

(* the positions of the columns of df that carry the label *)
ColumnsLabelled(df, label) == {j \in 1..Len(df.cols) : df.cols[j] = label}

(* a cell holds a value whose text has a non-whitespace character *)
NonBlank(c) == c.t # "nan" /\ \E k \in 1..Len(PyStr(c)) : ~IsSpace(PyStr(c)[k])

(* C11: after a successful process_and_merge the reconciled output has one  *)
(* 'Centro de Costo' column, and in every row its value is present and,     *)
(* trimmed, not empty; it is the Tienda value of a row of R033, never a     *)
(* placeholder                                                             *)
C11_CostCenterNeverBlank ==
    Reconciled =>
        /\ Cardinality(ColumnsLabelled(df_resultado, CENTRO_DE_COSTO)) = 1
        /\ \A r \in 1..Len(df_resultado.rows) :
             \A j \in ColumnsLabelled(df_resultado, CENTRO_DE_COSTO) :
                /\ NonBlank(df_resultado.rows[r][j])
                /\ \E i \in 1..Len(df_r033.rows) :
                     \E c \in ColumnsLabelled(df_r033, StrCell(TIENDA)) :
                        df_r033.rows[i][c] = df_resultado.rows[r][j]

(* a successful merge that kept a row and dropped another one *)
C11_Witness ==
    /\ Reconciled
    /\ Len(df_resultado.rows) >= 1
    /\ Len(df_resultado.rows) < Len(df_r065_filtrado.rows)

(* the lookup table process_and_merge builds from the loaded R033 *)
LookupOf(df) ==
    LookupTable(df, FindColumn(df, OC_NAMES_R033, FALSE), FindColumn(df, <<TIENDA>>, TRUE),
                FindColumn(df, <<ESTATUS>>, TRUE))

(* process_and_merge built its lookup table and joined on it *)
Joined == pc["bq"] \in {"merge_write", "set", "upload", "done"} /\ steps.merge # "fail"

(* C12: no two rows of the lookup table used in the join carry the same     *)
(* normalised (string, trimmed) order key, whatever the R033 input          *)
C12_LookupKeyUnique ==
    Joined =>
        \E lookup \in {LookupOf(df_r033)} :
            \A i, j \in 1..Len(lookup) : lookup[i].key = lookup[j].key => i = j

(* whether a[i..] can be matched, in order and one to one, to rows of      *)
(* b[j..]: the earliest match of each row is taken                         *)
RECURSIVE MatchesFrom(_, _, _, _)
MatchesFrom(a, b, i, j) ==
    IF i > Len(a) THEN TRUE
    ELSE IF j > Len(b) THEN FALSE
    ELSE IF a[i] = b[j] THEN MatchesFrom(a, b, i + 1, j + 1)
    ELSE MatchesFrom(a, b, i, j + 1)

(* a is b with some of its elements removed in place *)
IsSubsequence(a, b) == MatchesFrom(a, b, 1, 1)

(* the rows of df cut down to their first n cells *)
Restricted(df, n) == [r \in 1..Len(df.rows) |-> SubSeq(df.rows[r], 1, n)]

(* C13: from the join on, the rows of df_resultado cut down to the columns  *)
(* of the filtered R065 are a subsequence of the filtered rows (same order, *)
(* no row twice), and right after the left join they are exactly the        *)
(* filtered rows, matched or not                                            *)
C13_OutputIsSubsequence ==
    Joined =>
        \E out \in {Restricted(df_resultado, Len(df_r065_filtrado.cols))} :
            /\ IsSubsequence(out, df_r065_filtrado.rows)
            /\ Len(merge_writes) = 3 => out = df_r065_filtrado.rows

(* the positions of the columns whose label, upper-cased, contains MENSAJE *)
MensajeColumns(df) ==
    {j \in 1..Len(df.cols) : Contains(MENSAJE, Upper(PyStr(df.cols[j])))}

(* the message of the row, trimmed, is the sentinel *)
HasSentinel(row, m) == Strip(PyStr(row[m])) = MENSAJE_FILTRO_R065

(* filter_r065 has been called in this run *)
FilterCalled == main_pc = "join_workers" /\ pc["bq"] # "filter"

(* C14: once filter_r065 has run it has succeeded without raising the       *)
(* error flag; with no column containing MENSAJE the filtered dataset is    *)
(* the whole R065, otherwise it is exactly the rows of R065, in order,      *)
(* whose trimmed value in the first such column is the sentinel, and every  *)
(* row of the reconciled output carries the sentinel there                  *)
C14_FilterExact ==
    FilterCalled =>
        /\ steps.filter = "ok"
        /\ error_message # "Error filtrando R065"
        /\ IF MensajeColumns(df_r065) = {}
           THEN df_r065_filtrado = df_r065
           ELSE \E m \in {First(MensajeColumns(df_r065))} :
                  /\ df_r065_filtrado.cols = df_r065.cols
                  /\ IsSubsequence(df_r065_filtrado.rows, df_r065.rows)
                  /\ \A r \in 1..Len(df_r065_filtrado.rows) :
                        HasSentinel(df_r065_filtrado.rows[r], m)
                  /\ Len(df_r065_filtrado.rows)
                        = Cardinality({r \in 1..Len(df_r065.rows) :
                                          HasSentinel(df_r065.rows[r], m)})
                  /\ Reconciled =>
                        \A r \in 1..Len(df_resultado.rows) :
                            HasSentinel(df_resultado.rows[r], m)

CENDIS_NORTE == StrCell(<<"C", "E", "N", "D", "I", "S", " ", "N", "o", "r", "t", "e">>)

(* the text has the letters C, E, N, D, I, S in a row, in either case *)
MentionsCendis(s) ==
    \E k \in 1..(Len(s) - 5) :
        \A d \in 0..5 : s[k + d] \in {CENDIS[d + 1], <<"c", "e", "n", "d", "i", "s">>[d + 1]}

(* C15: in every reconciled row 'Grupo de Pago' is CENDIS when the text of  *)
(* 'Centro de Costo' contains CENDIS in any case and Directo otherwise; a   *)
(* filtered R065 row whose order key matches an R033 row with Tienda        *)
(* 'CENDIS Norte' (the first R033 row with that key) is reconciled with     *)
(* that 'Centro de Costo' and with 'Grupo de Pago' CENDIS                   *)
C15_GrupoDePago ==
    Reconciled =>
        /\ Cardinality(ColumnsLabelled(df_resultado, GRUPO_DE_PAGO)) = 1
        /\ \A r \in 1..Len(df_resultado.rows) :
             \A g \in ColumnsLabelled(df_resultado, GRUPO_DE_PAGO) :
                \A c \in ColumnsLabelled(df_resultado, CENTRO_DE_COSTO) :
                    df_resultado.rows[r][g]
                        = IF MentionsCendis(PyStr(df_resultado.rows[r][c]))
                          THEN StrCell(CENDIS) ELSE StrCell(DIRECTO)
        /\ \A i \in 1..Len(df_r033.rows), k \in 1..Len(df_r065_filtrado.rows) :
             (/\ df_r033.rows[i][2] = CENDIS_NORTE
              /\ Strip(PyStr(df_r033.rows[i][1])) = Strip(PyStr(df_r065_filtrado.rows[k][1]))
              /\ \A h \in 1..(i - 1) :
                    Strip(PyStr(df_r033.rows[h][1])) # Strip(PyStr(df_r033.rows[i][1])))
             => \E r \in 1..Len(df_resultado.rows) :
                   /\ SubSeq(df_resultado.rows[r], 1, Len(df_r065_filtrado.cols))
                        = df_r065_filtrado.rows[k]
                   /\ \A c \in ColumnsLabelled(df_resultado, CENTRO_DE_COSTO) :
                        df_resultado.rows[r][c] = CENDIS_NORTE
                   /\ \A g \in ColumnsLabelled(df_resultado, GRUPO_DE_PAGO) :
                        df_resultado.rows[r][g] = StrCell(CENDIS)

(* a reconciled output with a CENDIS row whose cost center is written in   *)
(* lower case and a Directo row                                            *)
C15_Witness ==
    /\ Reconciled
    /\ \E r1, r2 \in 1..Len(df_resultado.rows) :
         \E g \in ColumnsLabelled(df_resultado, GRUPO_DE_PAGO) :
            \E c \in ColumnsLabelled(df_resultado, CENTRO_DE_COSTO) :
                /\ df_resultado.rows[r1][g] = StrCell(CENDIS)
                /\ df_resultado.rows[r1][c] # CENDIS_NORTE
                /\ df_resultado.rows[r2][g] = StrCell(DIRECTO)

----------------------------------------------------------------------------
(* Bounded inputs of the header search: sheets with title rows above the    *)
(* header row                                                              *)

(* the least number of matches that makes match_ratio >= 0.7 *)
Threshold(expected_headers) == (7 * Len(expected_headers) + 9) \div 10

(* a row of empty cells *)
BlankRow(width) == [j \in 1..width |-> NaN]

(* a row with m of the expected headers, from the one at position from on, *)
(* the second of them padded with blanks, and other text in the remaining  *)
(* cells                                                                   *)
HeaderRow(expected_headers, from, m) ==
    [j \in 1..Len(expected_headers) |->
        IF j > m THEN StrCell(<<"x">>)
        ELSE IF j = 2 THEN StrCell(<<" ">> \o expected_headers[from + j - 1] \o <<" ">>)
        ELSE StrCell(expected_headers[from + j - 1])]

(* a data row: order key 1, the sentinel message in the fifth cell *)
DataRow(width) ==
    [j \in 1..width |->
        IF j = 1 THEN IntCell(1) ELSE IF j = 5 THEN SENTINEL ELSE StrCell(<<"v">>)]

(* 0-based positions of the header row in the generated sheets: inside the *)
(* search window, on its last row, and just past it                        *)
HeaderRows == {0, 1, 5, 19, 20}

(* <<from, m>> of the header row: just below the threshold, on it, all the *)
(* headers, and on the threshold without the first header (the order key)  *)
HeaderKinds(expected_headers) ==
    { <<1, Threshold(expected_headers) - 1>>, <<1, Threshold(expected_headers)>>,
      <<1, Len(expected_headers)>>, <<2, Threshold(expected_headers)>> }

(* <<from, m>> of the title row at position 2: no header, half of them,    *)
(* just below the threshold, on it                                         *)
TitleKinds(expected_headers) ==
    { <<1, 0>>, <<1, Len(expected_headers) \div 2>>,
      <<1, Threshold(expected_headers) - 1>>, <<1, Threshold(expected_headers)>> }

(* the sheet with the header row at position p, a data row below it, the   *)
(* title row at position 2 when that is above the header row, and empty    *)
(* rows elsewhere                                                          *)
HeaderSheet(expected_headers, p, kind, title) ==
    [i \in 1..(p + 2) |->
        IF i = p + 1 THEN HeaderRow(expected_headers, kind[1], kind[2])
        ELSE IF i = p + 2 THEN DataRow(Len(expected_headers))
        ELSE IF i = 3 /\ title[2] > 0
        THEN HeaderRow(expected_headers, title[1], title[2])
        ELSE BlankRow(Len(expected_headers))]

HeaderFiles(expected_headers) ==
    { ExcelFile(HeaderSheet(expected_headers, p, kind, title)) :
        p \in HeaderRows, kind \in HeaderKinds(expected_headers),
        title \in TitleKinds(expected_headers) }

(* the pairs of files the header search is checked on *)
HeaderInputs ==
    (HeaderFiles(HEADERS_R033) \X {R065_Good}) \cup ({R033_Good} \X HeaderFiles(HEADERS_R065))

HeaderInit == \E in \in HeaderInputs : StartedWith(in[1], in[2])

(* the loads of these files, followed by the filter and the merge *)
HeaderSpec == HeaderInit /\ [][ReconcileNext]_vars

----------------------------------------------------------------------------
(* Properties of the header search                                         *)

(* at least 70% of the expected headers are, verbatim, trimmed cells of the row *)
Qualifies(row, expected_headers) ==
    10 * Cardinality({k \in 1..Len(expected_headers) :
                         \E j \in 1..Len(row) : Strip(PyStr(row[j])) = expected_headers[k]})
        >= 7 * Len(expected_headers)

(* i is what the claim requires of the header search on the sheet: the     *)
(* smallest index below min(20, rows) of a qualifying row, 0 without one   *)
IsFirstQualifying(i, sheet, expected_headers) ==
    \E window \in {{j \in 0..(Len(sheet) - 1) : j < 20}} :
        IF \E j \in window : Qualifies(sheet[j + 1], expected_headers)
        THEN /\ i \in window
             /\ Qualifies(sheet[i + 1], expected_headers)
             /\ \A j \in window : j < i => ~Qualifies(sheet[j + 1], expected_headers)
        ELSE i = 0

(* C16: for each loaded sheet the header search returns the smallest index  *)
(* within the first 20 rows of a row holding at least 70% of the expected   *)
(* headers, and 0 when there is none; the load does not fail, and the row   *)
(* at that index becomes the column labels                                  *)
C16_FirstQualifyingRow ==
    /\ pc["load_r033"] = "done" =>
         /\ steps.load_r033 = "ok"
         /\ \E i \in {FindHeaderInDataframe(args.r033_file.sheet, HEADERS_R033)} :
              /\ IsFirstQualifying(i, args.r033_file.sheet, HEADERS_R033)
              /\ df_r033.cols = args.r033_file.sheet[i + 1]
    /\ pc["load_r065"] = "done" =>
         /\ steps.load_r065 = "ok"
         /\ \E i \in {FindHeaderInDataframe(args.r065_file.sheet, HEADERS_R065)} :
              /\ IsFirstQualifying(i, args.r065_file.sheet, HEADERS_R065)
              /\ df_r065.cols = args.r065_file.sheet[i + 1]

(* Scenario 5: an R065 sheet whose row 2 holds 50% of the headers and whose *)
(* row 5 holds all of them is loaded with the labels of row 5               *)
C16_Witness ==
    /\ pc["load_r065"] = "done"
    /\ Len(args.r065_file.sheet) = 7
    /\ args.r065_file.sheet[3] = HeaderRow(HEADERS_R065, 1, 9)
    /\ args.r065_file.sheet[6] = HeaderRow(HEADERS_R065, 1, 18)
    /\ FindHeaderInDataframe(args.r065_file.sheet, HEADERS_R065) = 5
    /\ df_r065.cols = args.r065_file.sheet[6]

(* the order-key header of each vocabulary *)
ORDEN_R033 == HEADERS_R033[1]
ORDEN_R065 == HEADERS_R065[1]

(* some cell of the row is the literal, resp. is the literal once trimmed *)
HasCell(row, literal) == \E j \in 1..Len(row) : row[j] = StrCell(literal)
HasTrimmedCell(row, literal) == \E j \in 1..Len(row) : Strip(PyStr(row[j])) = literal

(* the literal is a cell of one of the first 20 rows of the sheet *)
InWindow(sheet, literal) ==
    \E i \in 1..Len(sheet) : i <= 20 /\ HasCell(sheet[i], literal)

(* the literal is a trimmed cell of the row the header search selects *)
InSelectedRow(sheet, expected_headers, literal) ==
    \E i \in 0..(Len(sheet) - 1) :
        /\ HasTrimmedCell(sheet[i + 1], literal)
        /\ IsFirstQualifying(i, sheet, expected_headers)

(* the order-key column process_and_merge resolves in each loaded dataset  *)
ResolvesR033 == FindColumn(df_r033, OC_NAMES_R033, FALSE) # 0
ResolvesR065 == FindColumn(df_r065, OC_NAMES_R065, FALSE) # 0

----------------------------------------------------------------------------
(* Bounded inputs of the summary: R065 sheets with supplier, invoice,      *)
(* amount and item columns                                                 *)

MaxRowsResumen == 2

(* header rows: the four columns of the summary, and each of them missing  *)
ResumenHeaders ==
    { << StrCell(<<"O", "R", "D", "E", "N", " ", "C", "O", "M", "P", "R", "A">>), StrCell(<<"N", "R", "O", " ", "F", "A", "C", "T", "U", "R", "A">>), StrCell(<<"M", "E", "N", "S", "A", "J", "E">>), StrCell(<<"N", "O", "M", "B", "R", "E", " ", "P", "R", "O", "V", "E", "E", "D", "O", "R", " ", "P", "A", "D", "R", "E">>), StrCell(<<"T", "O", "T", "A", "L">>), StrCell(<<"I", "T", "E", "M", " ", "D", "E", "S", "C", "R", "I", "P", "C", "I", "O", "N">>) >>,
      << StrCell(<<"O", "R", "D", "E", "N", " ", "C", "O", "M", "P", "R", "A">>), StrCell(<<"N", "R", "O", " ", "F", "A", "C", "T", "U", "R", "A">>), StrCell(<<"M", "E", "N", "S", "A", "J", "E">>), StrCell(<<"N", "O", "M", "B", "R", "E", " ", "P", "R", "O", "V", "E", "E", "D", "O", "R", " ", "P", "A", "D", "R", "E">>), StrCell(<<"T", "O", "T", "A", "L">>), StrCell(<<"O", "B", "S">>) >>,
      << StrCell(<<"O", "R", "D", "E", "N", " ", "C", "O", "M", "P", "R", "A">>), StrCell(<<"N", "R", "O", " ", "F", "A", "C", "T", "U", "R", "A">>), StrCell(<<"M", "E", "N", "S", "A", "J", "E">>), StrCell(<<"N", "O", "M", "B", "R", "E", " ", "P", "R", "O", "V", "E", "E", "D", "O", "R", " ", "P", "A", "D", "R", "E">>), StrCell(<<"O", "B", "S">>), StrCell(<<"I", "T", "E", "M", " ", "D", "E", "S", "C", "R", "I", "P", "C", "I", "O", "N">>) >>,
      << StrCell(<<"O", "R", "D", "E", "N", " ", "C", "O", "M", "P", "R", "A">>), StrCell(<<"O", "B", "S">>), StrCell(<<"M", "E", "N", "S", "A", "J", "E">>), StrCell(<<"N", "O", "M", "B", "R", "E", " ", "P", "R", "O", "V", "E", "E", "D", "O", "R", " ", "P", "A", "D", "R", "E">>), StrCell(<<"T", "O", "T", "A", "L">>), StrCell(<<"I", "T", "E", "M", " ", "D", "E", "S", "C", "R", "I", "P", "C", "I", "O", "N">>) >>,
      << StrCell(<<"O", "R", "D", "E", "N", " ", "C", "O", "M", "P", "R", "A">>), StrCell(<<"N", "R", "O", " ", "F", "A", "C", "T", "U", "R", "A">>), StrCell(<<"M", "E", "N", "S", "A", "J", "E">>), StrCell(<<"O", "B", "S">>), StrCell(<<"T", "O", "T", "A", "L">>), StrCell(<<"I", "T", "E", "M", " ", "D", "E", "S", "C", "R", "I", "P", "C", "I", "O", "N">>) >> }

(* data rows, all with the sentinel message and an order key of R033_Good: *)
(* line items sharing an invoice and its amount, the same (supplier,       *)
(* invoice) with another amount, a second supplier with the same invoice   *)
(* id and an equal amount, a missing invoice id, a missing supplier, an    *)
(* amount that is no number, a missing item                                *)
ResumenRows ==
    { << IntCell(1), StrCell(<<"F", "1">>), SENTINEL, StrCell(<<"P", "1">>), IntCell(100), StrCell(<<"I", "1">>) >>,
      << IntCell(1), StrCell(<<"F", "1">>), SENTINEL, StrCell(<<"P", "1">>), IntCell(100), StrCell(<<"I", "2">>) >>,
      << IntCell(2), StrCell(<<"F", "2">>), SENTINEL, StrCell(<<"P", "1">>), IntCell(50), StrCell(<<"I", "1">>) >>,
      << IntCell(2), StrCell(<<"F", "1">>), SENTINEL, StrCell(<<"P", "2">>), IntCell(100), StrCell(<<"I", "1">>) >>,
      << IntCell(1), NaN, SENTINEL, StrCell(<<"P", "1">>), IntCell(30), StrCell(<<"I", "2">>) >>,
      << IntCell(1), StrCell(<<"F", "3">>), SENTINEL, NaN, IntCell(70), StrCell(<<"I", "1">>) >>,
      << IntCell(2), StrCell(<<"F", "3">>), SENTINEL, StrCell(<<"P", "2">>), StrCell(<<"a", "b", "c">>), NaN >>,
      << IntCell(1), StrCell(<<"F", "1">>), SENTINEL, StrCell(<<"P", "1">>), IntCell(40), StrCell(<<"I", "2">>) >> }

ResumenFiles ==
    { ExcelFile(<<h>> \o rows) :
        h \in ResumenHeaders, rows \in SeqsUpTo(ResumenRows, MaxRowsResumen) }

ResumenInit == \E f65 \in ResumenFiles : StartedWith(R033_Good, f65)

(* one run up to the workbook: the loads, the filter, the merge, the       *)
(* signal, and the workbook task                                           *)
ResumenNext ==
    \/ LoadR033
    \/ LoadR065
    \/ MainJoinLoaders
    \/ BqFilter
    \/ BqMerge
    \/ BqMergeWrite
    \/ BqSet
    \/ ExcelWait
    \/ ExcelCheck
    \/ ExcelCreate

ResumenSpec == ResumenInit /\ [][ResumenNext]_vars

----------------------------------------------------------------------------
(* Properties of the summary                                               *)

(* the workbooks with a Resumen sheet *)
Summaries == {w \in workbooks : ~w.Resumen.none}

(* sum of the numbers in column k of the first n rows *)
RECURSIVE ColumnSum(_, _, _)
ColumnSum(rows, k, n) == IF n = 0 THEN 0 ELSE ColumnSum(rows, k, n - 1) + rows[n][k].n

(* C19: in every summary written, the last row is the TOTAL row and its    *)
(* invoice count, amount total and item count are the sums of these        *)
(* columns over all the other rows                                         *)
C19_TotalRowIsSum ==
    \A w \in Summaries :
        \E rows \in {w.Resumen.rows} :
            /\ w.Resumen.cols = <<PROVEEDOR, NUMERO_DE_FACTURAS, MONTO_TOTAL, NUMERO_DE_ITEMS>>
            /\ Len(rows) >= 1
            /\ rows[Len(rows)][1] = StrCell(TOTAL)
            /\ \A k \in 2..4 : rows[Len(rows)][k].n = ColumnSum(rows, k, Len(rows) - 1)

(* a summary of two suppliers whose TOTAL row differs from both *)
C19_Witness ==
    \E w \in Summaries :
        /\ Len(w.Resumen.rows) = 3
        /\ w.Resumen.rows[3][2].n > w.Resumen.rows[1][2].n
        /\ w.Resumen.rows[3][3].n > w.Resumen.rows[1][3].n
        /\ w.Resumen.rows[3][4].n > w.Resumen.rows[1][4].n

(* position of the first column of df with the label, 0 without it *)
ColumnOf(df, label) == First(ColumnsLabelled(df, StrCell(label)))

(* the values of column f in the rows of supplier s *)
InvoicesOf(rows, p, f, s) == {rows[r][f] : r \in {q \in 1..Len(rows) : rows[q][p] = s}}

(* the first row of supplier s with invoice inv *)
FirstRowOf(rows, p, f, s, inv) ==
    First({r \in 1..Len(rows) : rows[r][p] = s /\ rows[r][f] = inv})

(* sum, over the invoices invs of supplier s, of the amount in the first   *)
(* row of the pair                                                         *)
RECURSIVE SumOfFirstAmounts(_, _, _, _, _, _)
SumOfFirstAmounts(rows, p, f, m, s, invs) ==
    IF invs = {} THEN 0
    ELSE LET inv == CHOOSE x \in invs : TRUE
         IN  ToNumeric(rows[FirstRowOf(rows, p, f, s, inv)][m]).n
                 + SumOfFirstAmounts(rows, p, f, m, s, invs \ {inv})

(* the summary rows of the workbook, without the TOTAL row *)
SupplierRows(w) == SubSeq(w.Resumen.rows, 1, Len(w.Resumen.rows) - 1)

(* C20: in every summary written from reconciled rows with supplier,        *)
(* invoice and amount columns, every supplier has exactly one summary row;  *)
(* its amount total is the sum, over the distinct (supplier, invoice)       *)
(* pairs, of the first amount seen for the pair, and its invoice count is   *)
(* the number of distinct invoice ids of the supplier                       *)
C20_AmountOncePerInvoice ==
    \A w \in Summaries :
        \E p \in {ColumnOf(w.Resultado, NOMBRE_PROVEEDOR_PADRE)},
           f \in {ColumnOf(w.Resultado, NRO_FACTURA)},
           m \in {ColumnOf(w.Resultado, TOTAL)},
           rows \in {w.Resultado.rows},
           summary \in {SupplierRows(w)} :
            (f # 0 /\ m # 0) =>
                /\ p # 0
                /\ \A i \in 1..Len(summary) :
                      \E r \in 1..Len(rows) : rows[r][p] = summary[i][1]
                /\ \A r \in 1..Len(rows) :
                      rows[r][p] # NaN =>
                        \E i \in 1..Len(summary) :
                            /\ summary[i][1] = rows[r][p]
                            /\ \A j \in 1..Len(summary) : summary[j][1] = rows[r][p] => j = i
                            /\ \E invs \in {InvoicesOf(rows, p, f, rows[r][p])} :
                                 /\ summary[i][3].n
                                      = SumOfFirstAmounts(rows, p, f, m, rows[r][p], invs)
                                 /\ summary[i][2].n = Cardinality(invs \ {NaN})

(* Scenario 4: two reconciled rows of one supplier share an invoice id and *)
(* the amount 100; the summary gives the supplier one invoice and 100      *)
C20_Witness ==
    \E w \in Summaries :
        \E p \in {ColumnOf(w.Resultado, NOMBRE_PROVEEDOR_PADRE)},
           f \in {ColumnOf(w.Resultado, NRO_FACTURA)},
           m \in {ColumnOf(w.Resultado, TOTAL)},
           rows \in {w.Resultado.rows} :
            /\ p # 0 /\ f # 0 /\ m # 0
            /\ Len(rows) = 2
            /\ rows[1] # rows[2]
            /\ rows[1][p] = rows[2][p] /\ rows[1][p] # NaN
            /\ rows[1][f] = rows[2][f] /\ rows[1][f] # NaN
            /\ rows[1][m] = IntCell(100) /\ rows[2][m] = IntCell(100)
            /\ w.Resumen.rows[1][2] = IntCell(1)
            /\ w.Resumen.rows[1][3] = FloatCell(100)

----------------------------------------------------------------------------
(* Properties of the results of a run                                      *)

(* process_and_merge has been called in this run *)
MergeCalled == steps.filter = "ok" /\ (steps.merge # "none" \/ pc["bq"] = "merge_write")

(* the order-key column of the filtered R065, resp. of R033, is not found *)
MissingOrdenR065 == FindColumn(df_r065_filtrado, OC_NAMES_R065, FALSE) = 0
MissingOrdenR033 == FindColumn(df_r033, OC_NAMES_R033, FALSE) = 0

(* the message process_and_merge gives for the side whose column is missing *)
MissingOrdenMessage ==
    IF MissingOrdenR065 THEN "No se encontró columna Orden de Compra en R065"
    ELSE "No se encontró columna Orden de Compra en R033"

(* C21: when the order-key column is not found in the filtered R065 or in   *)
(* R033, process_and_merge fails with the error flag set and the message    *)
(* naming that side, assigns nothing to df_resultado, and the result main   *)
(* returns is the failure carrying that message                             *)
C21_MissingOrderColumn ==
    /\ [](MergeCalled /\ (MissingOrdenR065 \/ MissingOrdenR033) =>
            /\ steps.merge = "fail"
            /\ error_occurred
            /\ error_message = MissingOrdenMessage
            /\ Returned => result = [kind |-> "error", success |-> FALSE,
                                     error |-> MissingOrdenMessage, excel_path |-> NoPath])
    /\ [][(pc["bq"] = "merge" /\ (MissingOrdenR065 \/ MissingOrdenR033))
            => (df_resultado' = df_resultado /\ merge_writes' = merge_writes)]_vars

(* the second run on an instance that reconciled before fails on an R065    *)
(* without order-key column and returns that message                        *)
C21_Witness ==
    /\ runs = 2
    /\ Returned
    /\ ~df_resultado.none
    /\ MissingOrdenR065
    /\ result.error = "No se encontró columna Orden de Compra en R065"


(* the supplier column is not found in the reconciled row-set *)
MissingProveedor ==
    /\ ~df_resultado.none
    /\ FindColumn(df_resultado, <<NOMBRE_PROVEEDOR_PADRE>>, TRUE) = 0

(* C22: when the supplier column is not found in the reconciled row-set,   *)
(* create_excel fails: the error flag is set, the step reports a failure    *)
(* and no workbook is written at the output path                            *)
C22_MissingSupplierIsFatal ==
    (steps.render # "none" /\ MissingProveedor) =>
        /\ steps.render = "fail"
        /\ error_occurred
        /\ \A w \in workbooks : w.path # output_path


----------------------------------------------------------------------------
(* One whole run of main on generated files: the loads, the two worker     *)
(* threads and the result                                                  *)

MaxRowsRun33 == 1
MaxRowsRun65 == 2

(* header rows of the R033 sheets of a run, four columns each: the store   *)
(* code before the Tienda column and after it, no column named Tienda, no  *)
(* column named Estatus, and a first column matching the last order-key    *)
(* alias before a column matching the first one                            *)
R033_RunHeaders ==
    { << StrCell(<<"O", "r", "d", "e", "n", " ", "d", "e", " ", "C", "o", "m", "p", "r", "a">>), StrCell(<<"C", "ó", "d", ".", " ", "T", "i", "e", "n", "d", "a">>), StrCell(<<"T", "i", "e", "n", "d", "a">>), StrCell(<<"E", "s", "t", "a", "t", "u", "s">>) >>,
      << StrCell(<<"O", "r", "d", "e", "n", " ", "d", "e", " ", "C", "o", "m", "p", "r", "a">>), StrCell(<<"T", "i", "e", "n", "d", "a">>), StrCell(<<"C", "ó", "d", ".", " ", "T", "i", "e", "n", "d", "a">>), StrCell(<<"E", "s", "t", "a", "t", "u", "s">>) >>,
      << StrCell(<<"O", "r", "d", "e", "n", " ", "d", "e", " ", "C", "o", "m", "p", "r", "a">>), StrCell(<<"C", "ó", "d", ".", " ", "T", "i", "e", "n", "d", "a">>), StrCell(<<"L", "o", "c", "a", "l">>), StrCell(<<"E", "s", "t", "a", "t", "u", "s">>) >>,
      << StrCell(<<"O", "r", "d", "e", "n", " ", "d", "e", " ", "C", "o", "m", "p", "r", "a">>), StrCell(<<"C", "ó", "d", ".", " ", "T", "i", "e", "n", "d", "a">>), StrCell(<<"T", "i", "e", "n", "d", "a">>), StrCell(<<"E", "s", "t", "a", "d", "o">>) >>,
      << StrCell(<<"O", "C", " ", "L", "o", "c", "a", "l">>), StrCell(<<"C", "ó", "d", ".", " ", "T", "i", "e", "n", "d", "a">>), StrCell(<<"T", "i", "e", "n", "d", "a">>), StrCell(<<"O", "r", "d", "e", "n", " ", "d", "e", " ", "C", "o", "m", "p", "r", "a">>) >> }

(* data rows under these headers: order key, store code, store, status;    *)
(* a key given as a number with a store, and one given as text with the    *)
(* store missing                                                           *)
R033_RunRows ==
    { << IntCell(100), StrCell(<<"T", "0", "1">>), StrCell(<<"C", "E", "N", "D", "I", "S", " ", "N", "o", "r", "t", "e">>), StrCell(<<"A">>) >>,
      << StrCell(<<"5", "0", "0">>), StrCell(<<"T", "0", "3">>), NaN, StrCell(<<"A">>) >> }

R033_RunFiles ==
    { ExcelFile(<<h>> \o rows) :
        h \in R033_RunHeaders, rows \in SeqsUpTo(R033_RunRows, MaxRowsRun33) }

(* data rows under R065_Header: the two order keys of the R033 rows with   *)
(* the sentinel message (a sheet without the R033 row of a key leaves it   *)
(* unmatched), and a row with another message                              *)
R065_RunRows ==
    { << IntCell(100), StrCell(<<"F", "1">>), SENTINEL, StrCell(<<"P", "1">>), IntCell(100) >>,
      << IntCell(500), StrCell(<<"F", "2">>), SENTINEL, StrCell(<<"P", "2">>), IntCell(50) >>,
      << IntCell(400), StrCell(<<"F", "3">>), StrCell(<<"o", "t", "r", "o">>), StrCell(<<"P", "1">>), IntCell(70) >> }

R065_RunFiles ==
    { ExcelFile(<<R065_Header>> \o rows) : rows \in SeqsUpTo(R065_RunRows, MaxRowsRun65) }

(* the pairs of files of a run: the generated sheets, and the files that   *)
(* make a load, the filter or the merge fail                               *)
RunInputs ==
    (R033_RunFiles \X R065_RunFiles)
        \cup {<<R033_NoOrden, R065_Good>>, <<R033_Good, R065_NoOrden>>,
              <<R033_Good, R065_TwoMensaje>>, <<CorruptFile, R065_Good>>}

RunInit == \E in \in RunInputs : StartedWith(in[1], in[2])

(* the first call of main from the start of the loader threads to the      *)
(* returned result                                                         *)
RunNext ==
    \/ LoadR033
    \/ LoadR065
    \/ MainJoinLoaders
    \/ BqFilter
    \/ BqMerge
    \/ BqMergeWrite
    \/ BqSetFailed
    \/ BqSet
    \/ BqUpload
    \/ ExcelWait
    \/ ExcelCheck
    \/ ExcelCreate
    \/ MainJoinWorkers

RunSpec == RunInit /\ [][RunNext]_vars


(* the label, trimmed and upper-cased, equals an alias or holds one as a   *)
(* run of consecutive characters                                           *)
LabelQualifies(label, names, exact) ==
    \E col \in {Upper(Strip(PyStr(label)))} :
        \E k \in 1..Len(names) :
            \E alias \in {Upper(Strip(names[k]))} :
                IF exact THEN col = alias
                ELSE \E from \in 1..(Len(col) + 1) :
                        /\ from + Len(alias) - 1 <= Len(col)
                        /\ \A c \in 1..Len(alias) : col[from + c - 1] = alias[c]

(* k is the first qualifying column of df, or 0 when no column qualifies *)
IsFirstColumn(df, names, exact, k) ==
    /\ k \in 0..Len(df.cols)
    /\ \A i \in 1..Len(df.cols) : i < k \/ k = 0 => ~LabelQualifies(df.cols[i], names, exact)
    /\ k # 0 => LabelQualifies(df.cols[k], names, exact)

(* the order-key column of df: the first column whose label holds one of   *)
(* the aliases, 0 when there is none                                       *)
OrderColumn(df, names) == CHOOSE k \in 0..Len(df.cols) : IsFirstColumn(df, names, FALSE, k)

(* the order key as the join compares it: the text of the cell, trimmed *)
KeyOf(c) == Strip(PyStr(c))

(* the normalised order keys of the rows of R033 *)
KeysOfR033 ==
    {KeyOf(df_r033.rows[i][k]) : i \in 1..Len(df_r033.rows),
                                 k \in {OrderColumn(df_r033, OC_NAMES_R033)}}

(* the rows of df, a DataFrame with the columns of R065, whose order key   *)
(* is the key of no row of R033                                            *)
Unmatched(df) ==
    {r \in 1..Len(df.rows) :
        KeyOf(df.rows[r][OrderColumn(df, OC_NAMES_R065)]) \notin KeysOfR033}

(* main returned success *)
ReturnedSuccess == Returned /\ result.success

(* C23: a filtered R065 row whose normalised order key is the key of no    *)
(* R033 row has a missing cost center in every value process_and_merge     *)
(* assigns to df_resultado before the drop, is not in the final output,    *)
(* whose size is rows_processed, and is counted in rows_r065_filtrado, the *)
(* size of the filtered R065                                               *)
C23_UnmatchedDroppedButCounted ==
    /\ [](ReturnedSuccess =>
            /\ Unmatched(df_resultado) = {}
            /\ result.rows_processed = Len(df_resultado.rows)
            /\ result.rows_r065_filtrado = Len(df_r065_filtrado.rows))
    /\ [][pc["bq"] = "merge_write" =>
            \A r \in Unmatched(df_resultado') :
                \A j \in ColumnsLabelled(df_resultado', CENTRO_DE_COSTO) :
                    df_resultado'.rows[r][j].t = "nan"]_vars

(* a successful run whose filtered R065 has a matched and an unmatched row *)
C23_Witness ==
    /\ ReturnedSuccess
    /\ Cardinality(Unmatched(df_r065_filtrado)) = 1
    /\ result.rows_r065_filtrado = 2
    /\ result.rows_processed = 1


(* the orders in which the aliases of a list can be given *)
Reordered(names) ==
    { [i \in 1..Len(names) |-> names[p[i]]] :
        p \in {q \in [1..Len(names) -> 1..Len(names)] :
                 \A i, j \in 1..Len(names) : q[i] = q[j] => i = j} }

(* the look-ups process_and_merge is about to make on the DataFrames the   *)
(* instance holds, and the one on the invoice column _create_resumen makes *)
(* on the reconciled row-set                                               *)
FindColumnCalls ==
    IF pc["bq"] = "merge" /\ ~df_r033.none /\ ~df_r065_filtrado.none
    THEN { [df |-> df_r065_filtrado, names |-> OC_NAMES_R065, exact |-> FALSE],
           [df |-> df_r033, names |-> OC_NAMES_R033, exact |-> FALSE],
           [df |-> df_r033, names |-> <<TIENDA>>, exact |-> TRUE],
           [df |-> df_r033, names |-> <<ESTATUS>>, exact |-> TRUE] }
    ELSE IF pc["excel"] = "create" /\ ~df_resultado.none
    THEN { [df |-> df_resultado, names |-> <<NRO_FACTURA>>, exact |-> FALSE],
           [df |-> df_resultado, names |-> <<TOTAL>>, exact |-> TRUE] }
    ELSE {}

(* C24: _find_column returns the first column, in column order and in      *)
(* whatever order the aliases are given, whose trimmed upper-cased label   *)
(* equals an alias (exact mode) or contains one (substring mode), and None *)
(* when there is none; the exact look-up of Tienda never returns the       *)
(* column 'Cód. Tienda', and the cost centers of the reconciled rows are   *)
(* values of the Tienda column                                             *)
C24_FirstColumnInColumnOrder ==
    /\ \A call \in FindColumnCalls :
         \E first \in {CHOOSE k \in 0..Len(call.df.cols) :
                          IsFirstColumn(call.df, call.names, call.exact, k)} :
            \A names \in Reordered(call.names) :
                FindColumn(call.df, names, call.exact) = first
    /\ (Reconciled /\ pc["bq"] = "set") =>
         \E k \in {FindColumn(df_r033, <<TIENDA>>, TRUE)} :
            /\ k # 0 => df_r033.cols[k] = StrCell(TIENDA)
            /\ \A r \in 1..Len(df_resultado.rows) :
                  \A j \in ColumnsLabelled(df_resultado, CENTRO_DE_COSTO) :
                     /\ k # 0
                     /\ \E i \in 1..Len(df_r033.rows) :
                          df_resultado.rows[r][j] = df_r033.rows[i][k]

(* a reconciled row whose cost center comes from the Tienda column of an   *)
(* R033 sheet with the column 'Cód. Tienda' before it                      *)
C24_Witness ==
    /\ Reconciled
    /\ pc["bq"] = "set"
    /\ Len(df_resultado.rows) > 0
    /\ Len(df_r033.cols) = 4
    /\ Contains(TIENDA, PyStr(df_r033.cols[2]))
    /\ df_r033.cols[2] # StrCell(TIENDA)
    /\ df_r033.cols[3] = StrCell(TIENDA)


(* df holds the sheet from its detected header row on: the cells of that   *)
(* row as column labels and the rows after it, in order, as data           *)
LoadedAs(df, sheet, expected_headers) ==
    \E i \in 0..(Len(sheet) - 1) :
        /\ IsFirstQualifying(i, sheet, expected_headers)
        /\ df.cols = sheet[i + 1]
        /\ Len(df.rows) = Len(sheet) - (i + 1)
        /\ \A r \in 1..Len(df.rows) : df.rows[r] = sheet[i + 1 + r]

(* after a successful load the dataset is the sheet from its header row on *)
LoadedFromHeaderRow ==
    /\ steps.load_r033 = "ok" => LoadedAs(df_r033, args.r033_file.sheet, HEADERS_R033)
    /\ steps.load_r065 = "ok" => LoadedAs(df_r065, args.r065_file.sheet, HEADERS_R065)

(* no two columns of df carry the same label *)
UniqueLabels(df) == \A i, j \in 1..Len(df.cols) : df.cols[i] = df.cols[j] => i = j

(* C25: after a successful load the column labels are the cells of the     *)
(* detected header row, the rows are the sheet's rows after that row in    *)
(* sheet order, and no two columns carry the same label                    *)
C25_LoadedDataset ==
    /\ LoadedFromHeaderRow
    /\ steps.load_r033 = "ok" => UniqueLabels(df_r033)
    /\ steps.load_r065 = "ok" => UniqueLabels(df_r065)


(* C26: when main returns, the loaded datasets are what the loads stored,  *)
(* and once the worker threads run they do not change: no step of          *)
(* filter_r065, process_and_merge, _create_resumen,                        *)
(* create_excel or _prepare_dataframe_for_bigquery changes df_r033 or      *)
(* df_r065; process_and_merge leaves df_r065_filtrado unchanged; the       *)
(* workbook and warehouse builders leave df_resultado unchanged            *)
C26_LoadedDatasetsUnchanged ==
    /\ [](Returned /\ load_errors = <<>> => LoadedFromHeaderRow)
    /\ [][main_pc = "join_workers" => df_r033' = df_r033 /\ df_r065' = df_r065]_vars
    /\ [][pc["bq"] \in {"merge", "merge_write"} => df_r065_filtrado' = df_r065_filtrado]_vars
    /\ [][(pc["excel"] = "create" \/ pc["bq"] = "upload") => df_resultado' = df_resultado]_vars

(* a returned run in which the filter dropped a row, the merge kept one,   *)
(* the workbook was written and rows were handed to the warehouse          *)
C26_Witness ==
    /\ ReturnedSuccess
    /\ Len(df_r065.rows) = 2
    /\ Len(df_r065_filtrado.rows) = 1
    /\ Len(df_resultado.rows) = 1
    /\ workbooks # {}
    /\ bq_sent # <<>>


(* R033 has no column labelled exactly Tienda, resp. Estatus *)
NoTienda == ~df_r033.none /\ IsFirstColumn(df_r033, <<TIENDA>>, TRUE, 0)
NoEstatus == ~df_r033.none /\ IsFirstColumn(df_r033, <<ESTATUS>>, TRUE, 0)

(* process_and_merge was called on datasets whose order-key columns resolve *)
MergeCalledWithKeys ==
    /\ MergeCalled
    /\ OrderColumn(df_r033, OC_NAMES_R033) # 0
    /\ OrderColumn(df_r065_filtrado, OC_NAMES_R065) # 0

(* every cell of the column of df with the label is the empty text or missing *)
BlankColumn(df, label) ==
    \A j \in ColumnsLabelled(df, label) :
        \A r \in 1..Len(df.rows) : df.rows[r][j] \in {StrCell(<<>>), NaN}

(* C27: without a column named exactly Tienda or Estatus in R033,          *)
(* process_and_merge succeeds and sets no error flag; the missing column   *)
(* is blank in every row it assigns; without Tienda the reconciled output  *)
(* is empty, and main returns success with rows_processed = 0 whenever the *)
(* workbook is written                                                     *)
C27_OptionalColumnsMissing ==
    /\ [](MergeCalledWithKeys /\ (NoTienda \/ NoEstatus) =>
            /\ steps.merge # "fail"
            /\ error_occurred => steps.render = "fail"
            /\ (NoEstatus /\ Reconciled) => BlankColumn(df_resultado, ESTATUS_R033)
            /\ (NoTienda /\ Reconciled) => df_resultado.rows = <<>>
            /\ (NoTienda /\ Returned /\ steps.render = "ok") =>
                    /\ result.success
                    /\ result.rows_processed = 0)
    /\ [][pc["bq"] = "merge_write" =>
            /\ NoTienda => BlankColumn(df_resultado', CENTRO_DE_COSTO)
            /\ NoEstatus => BlankColumn(df_resultado', ESTATUS_R033)]_vars

(* a successful run on an R033 without Tienda whose filtered R065 rows all *)
(* have their order key in R033                                            *)
C27_Witness ==
    /\ ReturnedSuccess
    /\ NoTienda
    /\ Len(df_r065_filtrado.rows) > 0
    /\ Unmatched(df_r065_filtrado) = {}
    /\ result.rows_processed = 0


(* the positions of the columns of df whose cells are all one and the same *)
(* point in time                                                           *)
StampColumns(df) ==
    {j \in 1..Len(df.cols) :
        \A r \in 1..Len(df.rows) :
            df.rows[r][j].t = "datetime" /\ df.rows[r][j] = df.rows[1][j]}

(* every row-set handed to the warehouse has the column col_vpn_timestamp, *)
(* with one value on all its rows                                          *)
WarehouseStamped ==
    \A k \in 1..Len(bq_sent) :
        \E j \in StampColumns(bq_sent[k]) : bq_sent[k].cols[j] = StrCell(COL_VPN_TIMESTAMP)

(* C28: the reconciled row-set has a processing timestamp column carrying  *)
(* one value on all rows, in df_resultado, in the Resultado sheet of the   *)
(* workbook and in the row-set handed to the warehouse, and the workbook   *)
(* and the warehouse carry the same value                                  *)
C28_TimestampOnEveryRow ==
    /\ WarehouseStamped
    /\ Reconciled => StampColumns(df_resultado) # {}
    /\ \A w \in workbooks :
         /\ StampColumns(w.Resultado) # {}
         /\ \A k \in 1..Len(bq_sent) :
              \A r \in 1..Len(w.Resultado.rows) :
                 \E j \in StampColumns(w.Resultado), i \in StampColumns(bq_sent[k]) :
                    w.Resultado.rows[r][j] = bq_sent[k].rows[r][i]


(* C29: main returns success only when, in the run it returns from, both   *)
(* loads, filter_r065, process_and_merge and create_excel succeeded; the   *)
(* path in the result is then not None and is the path of the workbook the *)
(* workbook task of this run wrote from this run's df_resultado, on a      *)
(* first run and on a later run of the same instance                       *)
C29_SuccessMeansAllStepsThisRun ==
    ReturnedSuccess =>
        /\ steps.load_r033 = "ok"
        /\ steps.load_r065 = "ok"
        /\ steps.filter = "ok"
        /\ steps.merge = "ok"
        /\ steps.render = "ok"
        /\ ~error_occurred
        /\ result.excel_path # NoPath
        /\ result.excel_path = output_path
        /\ \E w \in workbooks : w.path = result.excel_path /\ w.Resultado = df_resultado

(* a second run of an instance returns success with its own workbook while *)
(* the workbook of the first run lies at another path                      *)
C29_Witness ==
    /\ runs = 2
    /\ ReturnedSuccess
    /\ \E w \in workbooks : w.path # result.excel_path


(* C30: in every run upload_to_bigquery is called at most once, and only   *)
(* after filter_r065 and process_and_merge succeeded in this run and       *)
(* processing_complete was set; rows reach the warehouse collaborator only *)
(* in that call, at most one row-set per run, and never in a run whose     *)
(* filter or merge failed                                                  *)
C30_UploadOnceAfterSignal ==
    /\ [](/\ Len(bq_sent) <= 1
          /\ (ReconcileFailed \/ LoadFailed) => (bq_sent = <<>> /\ steps.upload = "none")
          /\ (steps.upload # "none" \/ pc["bq"] = "upload") =>
                /\ steps.filter = "ok"
                /\ steps.merge = "ok"
                /\ processing_complete
                /\ set_calls = 1)
    /\ [][UploadStep => (steps.upload = "none" /\ bq_sent = <<>>)]_vars
    /\ [][Len(bq_sent') > Len(bq_sent) => UploadStep]_vars

(* the second run of an instance has handed its one row-set, with rows, to *)
(* the warehouse collaborator                                              *)
C30_Witness ==
    /\ runs = 2
    /\ Len(bq_sent) = 1
    /\ steps.upload \in {"ok", "insert_failed"}
    /\ Len(bq_sent[1].rows) > 0

====
